---- MODULE Spec2Model ----
(***************************************************************************)
(* Model of the subway simulator (src-tauri/src/simulator.rs): the         *)
(* discrete-event movement engine (Simulator::new, station_to_track, run)  *)
(* and the solver-guided scheduler (schedule_trains).                      *)
(*                                                                         *)
(* Positions, distances and times are f64 values that are always integer   *)
(* multiples of 0.5 in the program (every value is built from 0.5, 1.0,    *)
(* 2.0 and integer track lengths by +, -, min and max), so they are        *)
(* represented exactly as integers counting HALF units: 1 = 0.5.           *)
(***************************************************************************)
EXTENDS Integers, Sequences, FiniteSets, TLC

VARIABLES
    subway_map,         \* the graph: [nodes, edges]
    routes,             \* Seq of Route, index = RouteId
    traversal_order,    \* Seq of TrackStationId, built by Simulator::new
    route_order,        \* the order in which the HashMap `routes` iterates
    stations,           \* StationId -> Station
    tracks,             \* TrackId -> Track
    trains,             \* TrainId -> Train (live trains only)
    curr_train_counts,  \* RouteId -> number of trains minted so far
    t,                  \* the loop variable of run / schedule_trains
    iterations,         \* argument of run / schedule_trains
    frequency,          \* argument of run
    train_positions,    \* Seq of TrainPositions samples
    train_to_route,     \* TrainId -> RouteId of every train ever dispatched
    pc,                 \* where the running function is
    removed_log,        \* history: removals of the last tick
    retirements,        \* history: number of removals so far
    desired_frequencies,\* argument of schedule_trains
    frequencies,        \* schedule_trains: remaining quota per epoch and route
    prior_conflicts,    \* argument `conflicts` of schedule_trains
    z3_solver,          \* solver stack: assertions of the base level and of each push
    train_scheduled_at, \* schedule_trains: TrainId -> dispatch tick
    states,             \* schedule_trains: per-tick snapshots
    new_conflicts,      \* schedule_trains: clauses learned in this call
    last_conflict,      \* history: the conflict handled by the last step
    search_map,         \* the SearchMap: [map, old_to_new_nodes]
    dijkstra_tie,       \* how dijkstra resolves equal costs
    answers,            \* the values returned by the calls of shortest_paths
    caller,             \* who called schedule_trains: "main" or "optimize"
    trip_data,          \* argument of optimize: time -> Seq of Trip
    shortest_paths,     \* argument of optimize: (start, end) -> paths
    blacklisted_fragments, \* optimize: the fragments given up
    curr_cost,          \* optimize: the cost of the schedule kept
    curr_schedule,      \* optimize: route name -> frequency per epoch
    curr_simulation_results, \* optimize: the results to return
    best_fragment,      \* optimize: the fragment tried in this iteration
    lowest_cost,        \* optimize: its estimated cost
    accepted,           \* history: the costs of the increments kept
    accepted_results,   \* history: the results of the run kept last
    twin,               \* a second execution of run, with the routes
                        \* iterated in the opposite order
    carry               \* the tables of a sequence of schedule_trains calls
                        \* that hands the clauses learned by one to the next

vars == << subway_map, routes, traversal_order, route_order, stations, tracks, trains,
           curr_train_counts, t, iterations, frequency, train_positions,
           train_to_route, pc, removed_log, retirements, desired_frequencies,
           frequencies, prior_conflicts, z3_solver,
           train_scheduled_at, states, new_conflicts, last_conflict,
           search_map, dijkstra_tie, answers, caller, trip_data,
           shortest_paths, blacklisted_fragments, curr_cost, curr_schedule,
           curr_simulation_results, best_fragment, lowest_cost, accepted,
           accepted_results, twin, carry >>

----------------------------------------------------------------------------
(* Program constants, in half units where they are f64 *)

STATION_DWELL_TIME == 1
MIN_TRAIN_DISTANCE == 4
TIME_STEP == 2
\* one tick, one unit of track length, in half units
UNIT == TIME_STEP
\* f64::INFINITY: above every position the model can reach
INFINITY == 100000
\* run starts at t = -120
WARMUP == 120
SCHEDULE_GRANULARITY == 12

(* Bounds of the model *)
\* track lengths are 1..MaxLen and one long track of LongLen
MaxLen == 2
LongLen == 6
\* run: frequency is 1..MaxFreq, iterations is 0 or MaxIter
MaxFreq == 5
MaxIter == 4

Lengths == (1..MaxLen) \cup {LongLen}


f64_min(a, b) == IF a <= b THEN a ELSE b

f64_max(a, b) == IF a >= b THEN a ELSE b

Station(s) == [ty |-> "Station", id |-> s]

Track(e) == [ty |-> "Track", id |-> e]

TrainId(r, c) == [route_idx |-> r, count |-> c]

\* Option::None of a TrainId: route indices start at 1
None == [route_idx |-> 0, count |-> 0]

----------------------------------------------------------------------------
(* The inputs: small graphs and route sets *)

Edge(s, d, w, ty) == [source |-> s, target |-> d, weight |-> w, ty |-> ty]

Route(name, start, st, off) ==
    [name |-> name, start_station |-> start, station_to |-> st, offset |-> off]

\* A -> B -> C, one route [A,B,C]
NetLine(a, b) ==
    [map |-> [nodes |-> 1..3,
              edges |-> <<Edge(1, 2, a, "Track"), Edge(2, 3, b, "Track")>>],
     routes |-> <<Route("R1", 1, (1 :> 1) @@ (2 :> 2), 0)>>]

\* A -> B, one route [A,B]
NetSingle(a) ==
    [map |-> [nodes |-> 1..2, edges |-> <<Edge(1, 2, a, "Track")>>],
     routes |-> <<Route("R1", 1, (1 :> 1), 0)>>]

\* routes [A,B,D] and [C,B,E] crossing at B (A=1, B=2, D=3, C=4, E=5)
NetCross(a, b) ==
    [map |-> [nodes |-> 1..5,
              edges |-> <<Edge(1, 2, a, "Track"), Edge(2, 3, b, "Track"),
                          Edge(4, 2, b, "Track"), Edge(2, 5, a, "Track")>>],
     routes |-> <<Route("R1", 1, (1 :> 1) @@ (2 :> 2), 0),
                  Route("R2", 4, (4 :> 3) @@ (2 :> 4), 2)>>]

\* routes [A,B,C] and [D,B,C] merging onto the track B -> C
NetMerge(a, b) ==
    [map |-> [nodes |-> 1..4,
              edges |-> <<Edge(1, 2, a, "Track"), Edge(2, 3, b, "Track"),
                          Edge(4, 2, b, "Track")>>],
     routes |-> <<Route("R1", 1, (1 :> 1) @@ (2 :> 2), 0),
                  Route("R2", 4, (4 :> 3) @@ (2 :> 2), 1)>>]

\* routes [A,B,C] and [B,C]: the second starts at a station the first
\* passes through; a walk pair A <-> C that no route uses
NetMid(a, b) ==
    [map |-> [nodes |-> 1..3,
              edges |-> <<Edge(1, 2, a, "Track"), Edge(2, 3, b, "Track"),
                          Edge(1, 3, 1, "Walk"), Edge(3, 1, 1, "Walk")>>],
     routes |-> <<Route("R1", 1, (1 :> 1) @@ (2 :> 2), 0),
                  Route("R2", 2, (2 :> 2), 0)>>]

\* routes [A,B] and [A,C] sharing their start station
NetFork(a, b) ==
    [map |-> [nodes |-> 1..3,
              edges |-> <<Edge(1, 2, a, "Track"), Edge(1, 3, b, "Track")>>],
     routes |-> <<Route("R1", 1, (1 :> 1), 0),
                  Route("R2", 1, (1 :> 2), 0)>>]

\* routes [A,B,C,D] and [B,C,D]: the second joins the first at B and
\* shares the rest of its way
NetJoin(a, b) ==
    [map |-> [nodes |-> 1..4,
              edges |-> <<Edge(1, 2, a, "Track"), Edge(2, 3, b, "Track"),
                          Edge(3, 4, a, "Track")>>],
     routes |-> <<Route("R1", 1, (1 :> 1) @@ (2 :> 2) @@ (3 :> 3), 0),
                  Route("R2", 2, (2 :> 2) @@ (3 :> 3), 0)>>]

\* A <-> B on two tracks, routes [A,B] and [B,A]
NetBoth(a) ==
    [map |-> [nodes |-> 1..2,
              edges |-> <<Edge(1, 2, a, "Track"), Edge(2, 1, a, "Track")>>],
     routes |-> <<Route("R1", 1, (1 :> 1), 0),
                  Route("R2", 2, (2 :> 2), 0)>>]

Networks ==
    {NetLine(a, b) : a \in Lengths, b \in Lengths}
    \cup {NetBoth(a) : a \in 1..MaxLen}
    \cup {NetSingle(a) : a \in Lengths}
    \cup {NetCross(a, b) : a \in Lengths, b \in Lengths}
    \cup {NetMerge(a, b) : a \in Lengths, b \in Lengths}
    \cup {NetMid(a, b) : a \in Lengths, b \in Lengths}
    \cup {NetFork(a, b) : a \in Lengths, b \in Lengths}
    \cup {NetJoin(a, b) : a \in Lengths, b \in Lengths}

RouteIds == DOMAIN routes

\* every order in which n routes can be iterated
Orders(n) ==
    {o \in [1..n -> 1..n] : \A i, j \in 1..n : i # j => o[i] # o[j]}

----------------------------------------------------------------------------
(* Simulator::new: the traversal order *)

RECURSIVE DescSeq(_)
\* the elements of a set of numbers, largest first
DescSeq(S) ==
    IF S = {} THEN <<>>
    ELSE LET m == CHOOSE x \in S : \A y \in S : y <= x
         IN <<m>> \o DescSeq(S \ {m})

RECURSIVE AscSeq(_)
AscSeq(S) ==
    IF S = {} THEN <<>>
    ELSE LET m == CHOOSE x \in S : \A y \in S : x <= y
         IN <<m>> \o AscSeq(S \ {m})

\* stations with no outgoing edge of type Track
terminal_nodes(graph) ==
    AscSeq({n \in graph.nodes :
              \A e \in DOMAIN graph.edges :
                  ~(graph.edges[e].source = n /\ graph.edges[e].ty = "Track")})

all_route_edges(rts) ==
    UNION {{rts[r].station_to[s] : s \in DOMAIN rts[r].station_to} : r \in DOMAIN rts}

\* edges_directed walks a node's edge list from the edge added last
EdgesDirected(graph, n, dir) ==
    DescSeq({e \in DOMAIN graph.edges :
               IF dir = "Outgoing" THEN graph.edges[e].source = n
               ELSE graph.edges[e].target = n})

SeqMap(Op(_), s) == [i \in 1..Len(s) |-> Op(s[i])]

RECURSIVE SeqSum(_)
SeqSum(q) == IF q = <<>> THEN 0 ELSE Head(q) + SeqSum(Tail(q))

SelectIn(s, S) == SelectSeq(s, LAMBDA x : x \in S)

\* a station that is taken from the queue whatever its tracks
PendingNever(graph, rts, track_station, visited) == FALSE

\* lines 173-183: a station some of whose outgoing route edges have not
\* been processed yet is skipped for now
Pending(graph, rts, track_station, visited) ==
    /\ track_station.ty = "Station"
    /\ \E e \in DOMAIN graph.edges :
          /\ graph.edges[e].source = track_station.id
          /\ e \in all_route_edges(rts)
          /\ Track(e) \notin visited

RECURSIVE Bfs(_, _, _, _, _)
\* the loop of lines 166-197
Bfs(graph, rts, queue, order, visited) ==
    IF queue = <<>> THEN order
    ELSE
      LET track_station == Head(queue)
          rest == Tail(queue)
          are == all_route_edges(rts)
      IN
      IF track_station \in visited THEN Bfs(graph, rts, rest, order, visited)
      ELSE IF Pending(graph, rts, track_station, visited)
      THEN Bfs(graph, rts, rest, order, visited)
      ELSE
        LET pushed ==
              IF track_station.ty = "Track"
              THEN <<Station(graph.edges[track_station.id].source)>>
              ELSE SeqMap(Track,
                     SelectIn(EdgesDirected(graph, track_station.id, "Incoming"), are))
        IN Bfs(graph, rts, rest \o pushed, Append(order, track_station),
               visited \cup {track_station})

NewTraversalOrder(graph, rts) ==
    Bfs(graph, rts, SeqMap(Station, terminal_nodes(graph)), <<>>, {})

NewStations(graph, rts) ==
    [n \in graph.nodes |->
        [id |-> n, train |-> None, arrival_times |-> [r \in {} |-> <<>>]]]

NewTracks(graph) ==
    [e \in DOMAIN graph.edges |->
        [id |-> e, length |-> graph.edges[e].weight, trains |-> <<>>]]

----------------------------------------------------------------------------
(* The simulator state that the movement code reads and writes, as one     *)
(* record: the fields of Simulator that change, plus the history fields.   *)

SimState ==
    [stations |-> stations, tracks |-> tracks, trains |-> trains,
     curr_train_counts |-> curr_train_counts,
     removed_log |-> removed_log, retirements |-> retirements]

\* a function without the key k (HashMap::remove)
MapRemove(f, k) == [x \in DOMAIN f \ {k} |-> f[x]]

\* HashMap entry(k).or_default().push(v)
PushArrival(arr, k, v) ==
    IF k \in DOMAIN arr THEN [arr EXCEPT ![k] = Append(@, v)]
    ELSE arr @@ (k :> <<v>>)

\* a removal that forgets to clear the station's train field
RemoveTrainKeepsStation(S, station, train) ==
    [S EXCEPT !.trains = MapRemove(@, train),
              !.removed_log = @ \cup {[id |-> train, station |-> station,
                                       pos |-> S.trains[train].pos]},
              !.retirements = @ + 1]

\* the train occupying `station` has dwelt long enough and its route ends
\* here: it is removed
RemoveTrain(S, station, train) ==
    [S EXCEPT !.trains = MapRemove(@, train),
              !.stations[station].train = None,
              !.removed_log = @ \cup {[id |-> train, station |-> station,
                                       pos |-> S.trains[train].pos]},
              !.retirements = @ + 1]

\* a guard that finds room behind any tail train
TailLeavesRoomAlways(last_train_pos) == TRUE

\* the guard of line 255: the tail train of the next track leaves room
TailLeavesRoom(last_train_pos) == last_train_pos >= MIN_TRAIN_DISTANCE

\* a station that never lets its train go
StationHolds(S, station, time_left0) == S

\* lines 228-271: station_to_track
StationToTrack(S, station, time_left0) ==
    IF S.stations[station].train = None THEN S
    ELSE
      LET train == S.stations[station].train
          train0 == S.trains[train]
          distance_travelled ==
              f64_max(f64_min(STATION_DWELL_TIME - train0.pos, time_left0), 0)
          pos1 == train0.pos + distance_travelled
          time_left == time_left0 - distance_travelled
          S1 == [S EXCEPT !.trains[train].pos = pos1]
      IN
      IF pos1 < STATION_DWELL_TIME THEN S1
      ELSE
        LET route == routes[train0.route] IN
        IF station \notin DOMAIN route.station_to
        THEN RemoveTrain(S1, station, train)
        ELSE
          LET next_track_id == route.station_to[station]
              q == S1.tracks[next_track_id].trains
          IN
          IF q # <<>> THEN
            LET last_train_pos == S1.trains[q[Len(q)]].pos IN
            IF TailLeavesRoom(last_train_pos) THEN
              [S1 EXCEPT
                 !.stations[station].train = None,
                 !.tracks[next_track_id].trains = Append(@, train),
                 !.trains[train] =
                    [@ EXCEPT
                       !.pos = f64_max(f64_min(time_left,
                                               last_train_pos - MIN_TRAIN_DISTANCE), 0),
                       !.distance_travelled = @ + STATION_DWELL_TIME,
                       !.curr_section = Track(next_track_id),
                       !.visited = Append(@, Track(next_track_id))]]
            ELSE S1
          ELSE
            [S1 EXCEPT
               !.stations[station].train = None,
               !.tracks[next_track_id].trains = Append(@, train),
               !.trains[train] =
                  [@ EXCEPT !.pos = time_left,
                            !.curr_section = Track(next_track_id),
                            !.visited = Append(@, Track(next_track_id))]]

\* a headroom that is not clamped at 0
HeadroomUnclamped(pos, last_train_pos) ==
    IF pos + MIN_TRAIN_DISTANCE >= last_train_pos
    THEN last_train_pos - MIN_TRAIN_DISTANCE - pos
    ELSE last_train_pos - pos

\* lines 311-318: how far the leader (or the occupied station) lets a train go
Headroom(pos, last_train_pos) ==
    f64_max(IF pos + MIN_TRAIN_DISTANCE >= last_train_pos
            THEN last_train_pos - MIN_TRAIN_DISTANCE - pos
            ELSE last_train_pos - pos,
            0)

\* a travel distance that forgets the time left in the tick
TravelDistanceNoBudget(pos, length, last_train_pos, time_left) ==
    f64_min(f64_max(length - pos, 0), Headroom(pos, last_train_pos))

TravelDistance(pos, length, last_train_pos, time_left) ==
    f64_min(f64_min(time_left, f64_max(length - pos, 0)),
            Headroom(pos, last_train_pos))

\* lines 298-301: an occupied downstream station acts as a leader
EffectiveLeader(S, track, last_train_pos) ==
    LET next_station_id == subway_map.edges[track].target IN
    IF S.stations[next_station_id].train # None
    THEN f64_min(f64_max(S.tracks[track].length * UNIT - MIN_TRAIN_DISTANCE, 0),
                 last_train_pos)
    ELSE last_train_pos

\* an arrival time that counts the ticks backwards
ArrivalTimeBackwards(now, travel_distance) == travel_distance - now * UNIT

\* the value pushed to arrival_times for an arrival in tick `now`
ArrivalTime(now, travel_distance) == now * UNIT + travel_distance

\* recording that starts with the warm-up
RecordFromWarmup == 0 - WARMUP

\* arrival_times are recorded from this tick on
RecordFrom == 0

\* a test that finds every station vacant
StationVacantAlways(S, station) == TRUE

\* lines 324 and 620: the downstream station has no train
StationVacant(S, station) == S.stations[station].train = None

\* lines 326-354: the train at queue index i enters the downstream station
EnterStation(S, track, curr_train_id, travel_distance, now) ==
    LET next_station_id == subway_map.edges[track].target
        route == S.trains[curr_train_id].route
    IN
    [S EXCEPT
       !.tracks[track].trains = Tail(@),
       !.stations[next_station_id].train = curr_train_id,
       !.stations[next_station_id].arrival_times =
           IF now >= RecordFrom
           THEN PushArrival(@, route, ArrivalTime(now, travel_distance))
           ELSE @,
       !.trains[curr_train_id] =
           [@ EXCEPT !.distance_travelled = @ + S.tracks[track].length * UNIT,
                     !.curr_section = Station(next_station_id),
                     !.pos = 0,
                     !.visited = Append(@, Station(next_station_id))]]

RECURSIVE TrackLoop(_, _, _, _, _)
\* the while loop of lines 295-362; i counts from 0 as in the code
TrackLoop(S, track, i, last_train_pos0, now) ==
    IF i >= Len(S.tracks[track].trains) THEN S
    ELSE
      LET next_station_id == subway_map.edges[track].target
          length == S.tracks[track].length * UNIT
          last_train_pos == EffectiveLeader(S, track, last_train_pos0)
          curr_train_id == S.tracks[track].trains[i + 1]
          pos0 == S.trains[curr_train_id].pos
          travel_distance == TravelDistance(pos0, length, last_train_pos, TIME_STEP)
          pos1 == pos0 + travel_distance
          time_left == TIME_STEP - travel_distance
          S1 == [S EXCEPT !.trains[curr_train_id].pos = pos1]
      IN
      IF pos1 >= length /\ StationVacant(S, next_station_id)
      THEN TrackLoop(StationToTrack(
                        EnterStation(S1, track, curr_train_id, travel_distance, now),
                        next_station_id, time_left),
                     track, i, last_train_pos, now)
      ELSE TrackLoop(S1, track, i + 1, pos1, now)

RECURSIVE Movement(_, _, _)
\* the for loop of lines 286-365 over the traversal order, from index k
Movement(S, k, now) ==
    IF k > Len(traversal_order) THEN S
    ELSE
      LET track_station == traversal_order[k] IN
      Movement(IF track_station.ty = "Station"
               THEN StationToTrack(S, track_station.id, TIME_STEP)
               ELSE TrackLoop(S, track_station.id, 0, INFINITY, now),
               k + 1, now)

\* Rust's % on i32: the remainder takes the sign of the dividend
RustRem(a, b) == IF a >= 0 THEN a % b ELSE -((-a) % b)

\* a due test that forgets the route's offset
DueWithoutOffset(now, offset, freq) == RustRem(now, freq) = 0

\* line 368: the route is due at tick `now`
Due(now, offset, freq) == RustRem(now - offset, freq) = 0

NewTrain(id, route, start) ==
    [id |-> id, curr_section |-> Station(start), pos |-> 0,
     distance_travelled |-> 0, route |-> route, visited |-> <<Station(start)>>]

\* a dispatch that does not advance the route's train count
DispatchSameCount(S, id, now) ==
    LET start == routes[id].start_station
        curr_train_id == TrainId(id, S.curr_train_counts[id])
    IN
    [S EXCEPT
       !.stations[start].train = curr_train_id,
       !.trains = @ @@ (curr_train_id :> NewTrain(curr_train_id, id, start))]

\* lines 378-396: mint train (id, count) at the start station
Dispatch(S, id, now) ==
    LET start == routes[id].start_station
        curr_train_id == TrainId(id, S.curr_train_counts[id])
    IN
    [S EXCEPT
       !.stations[start].train = curr_train_id,
       !.stations[start].arrival_times =
           IF now >= RecordFrom THEN PushArrival(@, id, ArrivalTime(now, 0)) ELSE @,
       !.trains = @ @@ (curr_train_id :> NewTrain(curr_train_id, id, start)),
       !.curr_train_counts[id] = @ + 1]

RECURSIVE DispatchLoop(_, _, _, _)
\* the for loop of lines 367-398, visiting the routes in the order `ord`
DispatchLoop(S, ord, k, now) ==
    IF k > Len(ord) THEN S
    ELSE
      LET id == ord[k] IN
      IF ~Due(now, routes[id].offset, frequency) THEN DispatchLoop(S, ord, k + 1, now)
      ELSE IF S.stations[routes[id].start_station].train = None
      THEN DispatchLoop(Dispatch(S, id, now), ord, k + 1, now)
      ELSE DispatchLoop(S, ord, k + 1, now)

\* lines 402-416: the sample of the trains after tick `now`
Sample(S, now) ==
    [time |-> now,
     trains |-> {[id |-> id, curr_section |-> S.trains[id].curr_section,
                  pos |-> S.trains[id].pos,
                  distance_travelled |-> S.trains[id].distance_travelled]
                 : id \in DOMAIN S.trains}]

\* the samples are kept from this tick on (line 411)
SampleFrom == 0

\* train_to_route.insert for every train minted in the tick that led to S
Registered(ttr, before, S) ==
    [id \in DOMAIN S.trains \ DOMAIN before |-> S.trains[id].route] @@ ttr

FreshTick(S) == [S EXCEPT !.removed_log = {}]

----------------------------------------------------------------------------
(* run *)

\* f64::MAX and f64::INFINITY: above every cost the model can reach
F64_MAX == 2000000000
F64_INFINITY == F64_MAX + 1

NoFragment == <<0, "">>

\* Option::None of the simulation results
NoResults == [train_positions |-> <<>>, train_to_route |-> <<>>,
              station_statistics |-> <<>>, none |-> TRUE]

NoPlanner ==
    /\ search_map = [map |-> [nodes |-> <<>>, edges |-> <<>>],
                     old_to_new_nodes |-> <<>>]
    /\ dijkstra_tie = "first"
    /\ answers = <<>>

NoOptimize ==
    /\ caller = "main"
    /\ trip_data = <<>>
    /\ shortest_paths = <<>>
    /\ blacklisted_fragments = {}
    /\ curr_cost = F64_MAX
    /\ curr_schedule = <<>>
    /\ curr_simulation_results = NoResults
    /\ best_fragment = NoFragment
    /\ lowest_cost = F64_INFINITY
    /\ accepted = <<>>
    /\ accepted_results = NoResults

NoSchedule ==
    /\ desired_frequencies = <<>>
    /\ frequencies = <<>>
    /\ prior_conflicts = {}
    /\ z3_solver = <<>>
    /\ train_scheduled_at = <<>>
    /\ states = <<>>
    /\ new_conflicts = <<>>
    /\ last_conflict = {}

Construct(net) ==
    /\ subway_map = net.map
    /\ routes = net.routes
    /\ traversal_order = NewTraversalOrder(net.map, net.routes)
    /\ route_order \in Orders(Len(net.routes))
    /\ stations = NewStations(net.map, net.routes)
    /\ tracks = NewTracks(net.map)
    /\ trains = <<>>
    /\ curr_train_counts = [r \in DOMAIN net.routes |-> 0]
    /\ train_positions = <<>>
    /\ train_to_route = <<>>
    /\ removed_log = {}
    /\ retirements = 0

Init ==
    /\ \E net \in Networks : Construct(net)
    /\ iterations \in IF Len(routes) = 1 THEN {0, MaxIter} ELSE {MaxIter}
    /\ frequency \in 1..MaxFreq
    /\ t = -WARMUP
    /\ pc = "run"
    /\ NoSchedule
    /\ NoPlanner
    /\ NoOptimize
    /\ twin = <<>>
    /\ carry = <<>>

SchedUnchanged ==
    UNCHANGED << desired_frequencies, frequencies, prior_conflicts, z3_solver,
                 train_scheduled_at, states, new_conflicts, last_conflict >>

\* the state of the planner and of optimize
OtherUnchanged ==
    UNCHANGED << search_map, dijkstra_tie, answers, caller, trip_data,
                 shortest_paths, blacklisted_fragments, curr_cost,
                 curr_schedule, curr_simulation_results, best_fragment,
                 lowest_cost, accepted, accepted_results >>

\* one iteration of the while loop of run (lines 285-419) on the execution
\* R = [sim, train_positions, train_to_route], the routes iterated in the
\* order `ord`
RunStep(R, now, ord) ==
    LET S == DispatchLoop(Movement(FreshTick(R.sim), 1, now), ord, 1, now) IN
    [sim |-> S,
     train_to_route |-> Registered(R.train_to_route, R.sim.trains, S),
     train_positions |->
        IF now >= SampleFrom THEN Append(R.train_positions, Sample(S, now))
        ELSE R.train_positions]

InputsUnchanged ==
    /\ UNCHANGED << subway_map, routes, traversal_order, route_order, iterations,
                    frequency >>
    /\ OtherUnchanged

\* line 371: stations.get_mut(&route.start_station).unwrap() finds no
\* station for a route that is due in tick `now`
StartStationMissing(now) ==
    \E id \in RouteIds :
        /\ Due(now, routes[id].offset, frequency)
        /\ routes[id].start_station \notin DOMAIN stations

\* one iteration of the while loop of run (lines 285-419)
RunLoop ==
    /\ pc = "run"
    /\ t < iterations
    /\ ~StartStationMissing(t)
    /\ LET S == DispatchLoop(Movement(FreshTick(SimState), 1, t), route_order, 1, t) IN
         /\ stations' = S.stations
         /\ tracks' = S.tracks
         /\ trains' = S.trains
         /\ curr_train_counts' = S.curr_train_counts
         /\ removed_log' = S.removed_log
         /\ retirements' = S.retirements
         /\ train_to_route' = Registered(train_to_route, trains, S)
         /\ train_positions' =
               IF t >= SampleFrom THEN Append(train_positions, Sample(S, t))
               ELSE train_positions
    /\ t' = t + 1
    /\ pc' = "run"
    /\ InputsUnchanged
    /\ SchedUnchanged

RunTick == RunLoop /\ UNCHANGED << twin, carry >>

\* lines 421-436: the loop is over, the results are returned
RunReturn ==
    /\ pc = "run"
    /\ t >= iterations
    /\ pc' = "done"
    /\ UNCHANGED << twin, carry >>
    /\ UNCHANGED << stations, tracks, trains, curr_train_counts, t,
                    train_positions, train_to_route, removed_log, retirements >>
    /\ InputsUnchanged
    /\ SchedUnchanged

Next == RunTick \/ RunReturn

Spec == Init /\ [][Next]_vars

----------------------------------------------------------------------------
(* The solver: assertions over the departure variables, one integer        *)
(* variable per TrainId (to_z3_departure).  Every assertion is a record    *)
(* [k, a, ta, b, tb]:                                                      *)
(*   gap       x_a + ta <= x_b                                             *)
(*   ge        x_a >= ta            lt   x_a < ta         eq   x_a = ta    *)
(*   conflict  (x_a = ta) => ~(x_b = tb)                                   *)

\* a gap axiom that asks for no distance
GapZero(a, d, b) == [k |-> "gap", a |-> a, ta |-> 0, b |-> b, tb |-> 0]

\* next - curr >= d
Gap(a, d, b) == [k |-> "gap", a |-> a, ta |-> d, b |-> b, tb |-> 0]

Ge(a, n) == [k |-> "ge", a |-> a, ta |-> n, b |-> a, tb |-> 0]

Lt(a, n) == [k |-> "lt", a |-> a, ta |-> n, b |-> a, tb |-> 0]

Eq(a, n) == [k |-> "eq", a |-> a, ta |-> n, b |-> a, tb |-> 0]

\* a clause that excludes nothing: (x_a = ta) => ~(x_a = ta + 1)
ConflictVacuous(a, ta, b, tb) == [k |-> "conflict", a |-> a, ta |-> ta, b |-> a, tb |-> ta + 1]

Conflict(a, ta, b, tb) == [k |-> "conflict", a |-> a, ta |-> ta, b |-> b, tb |-> tb]

Unary(c) == c.k \in {"ge", "lt", "eq"} \/ (c.k = "conflict" /\ c.a = c.b)

\* does the value n of the variable of a unary assertion satisfy it
UnaryHolds(c, n) ==
    CASE c.k = "ge" -> n >= c.ta
      [] c.k = "lt" -> n < c.ta
      [] c.k = "eq" -> n = c.ta
      [] c.k = "conflict" -> ~(n = c.ta /\ n = c.tb)

SetMax(S) == CHOOSE x \in S : \A y \in S : y <= x

\* the variables of a set of assertions, by route and then by count
SolverVars(cs) ==
    LET vs == {c.a : c \in cs} \cup {c.b : c \in cs}
        rs == {v.route_idx : v \in vs}
        OfRoute(r) == SeqMap(LAMBDA n : TrainId(r, n),
                             AscSeq({v.count : v \in {w \in vs : w.route_idx = r}}))
        RECURSIVE Cat(_)
        Cat(rseq) == IF rseq = <<>> THEN <<>>
                     ELSE OfRoute(Head(rseq)) \o Cat(Tail(rseq))
    IN Cat(AscSeq(rs))

SetMin(S) == CHOOSE x \in S : \A y \in S : x <= y

RECURSIVE Least(_, _, _, _, _)
\* with gaps only (every gap leads from a variable to a later one of
\* `order`), the assertions have a model iff giving each variable in turn
\* the least value of its domain that respects the gaps never fails
Least(order, doms, gaps, k, val) ==
    IF k > Len(order) THEN TRUE
    ELSE
      LET v == order[k]
          lb == SetMax({0} \cup {val[c.a] + c.ta : c \in {g \in gaps : g.b = v}})
          cand == {n \in doms[v] : n >= lb}
      IN /\ cand # {}
         /\ Least(order, doms, gaps, k + 1, (v :> SetMin(cand)) @@ val)

RECURSIVE Branch(_, _, _, _)
\* a conflict clause between two variables that can both still take the
\* clause's values holds iff one of the two values is excluded; when one
\* of the variables has no other value left, the other value is excluded
Branch(order, doms, gaps, clauses) ==
    LET active == {c \in clauses : c.ta \in doms[c.a] /\ c.tb \in doms[c.b]}
        forced == {c \in active : doms[c.a] = {c.ta} \/ doms[c.b] = {c.tb}}
    IN
    IF active = {} THEN Least(order, doms, gaps, 1, <<>>)
    ELSE IF forced # {} THEN
      LET c == CHOOSE x \in forced : TRUE IN
      IF doms[c.a] = {c.ta}
      THEN /\ doms[c.b] # {c.tb}
           /\ Branch(order, [doms EXCEPT ![c.b] = @ \ {c.tb}], gaps, active \ {c})
      ELSE Branch(order, [doms EXCEPT ![c.a] = @ \ {c.ta}], gaps, active \ {c})
    ELSE
      LET c == CHOOSE x \in active : TRUE IN
      \/ Branch(order, [doms EXCEPT ![c.a] = @ \ {c.ta}], gaps, active \ {c})
      \/ Branch(order, [doms EXCEPT ![c.b] = @ \ {c.tb}], gaps, active \ {c})

\* z3 check: is the set of assertions satisfiable over the integers.
\* No model needs a value above the largest constant plus one minimum gap
\* per gap and clause, nor one below 0 (every lower bound is a ge, a gap or
\* an eq with a constant >= 0)
Sat(cs) ==
    LET order == SolverVars(cs)
        hi == SetMax({0} \cup {c.ta : c \in cs} \cup {c.tb : c \in cs})
              + Cardinality({c \in cs : c.k \in {"gap", "conflict"}})
              * (MIN_TRAIN_DISTANCE \div UNIT)
        Dom(v) ==
            LET mine == {d \in cs : Unary(d) /\ d.a = v}
                lo == SetMax({0} \cup {c.ta : c \in {d \in mine : d.k = "ge"}})
                up == SetMin({hi + 1} \cup {c.ta : c \in {d \in mine : d.k = "lt"}})
                rest == {d \in mine : d.k \in {"eq", "conflict"}}
            IN {n \in lo..(up - 1) : \A c \in rest : UnaryHolds(c, n)}
        doms == [v \in {order[i] : i \in 1..Len(order)} |-> Dom(v)]
    IN Branch(order, doms, {c \in cs : c.k = "gap"},
              {c \in cs : c.k = "conflict" /\ c.a # c.b})

Asserted(solver) == UNION {solver[i] : i \in 1..Len(solver)}

Push(solver) == Append(solver, {})

Pop(solver, n) == SubSeq(solver, 1, Len(solver) - n)

AssertAll(solver, cs) == [solver EXCEPT ![Len(solver)] = @ \cup cs]

----------------------------------------------------------------------------
(* schedule_trains *)

RECURSIVE SumTo(_, _, _)
\* curr_idx: the quota of route `name` summed over the epochs before e
SumTo(F, name, e) == IF e <= 1 THEN 0 ELSE SumTo(F, name, e - 1) + F[e - 1][name]

\* lines 467-504: the ground rules of the departure variables
Axioms(F, rts) ==
    UNION {
      LET start_time == (e - 1) * SCHEDULE_GRANULARITY
          end_time == start_time + SCHEDULE_GRANULARITY
          curr_idx == SumTo(F, rts[id].name, e)
      IN UNION {
           LET curr_train == TrainId(id, i + curr_idx)
               next_train == TrainId(id, i + curr_idx + 1)
           IN {Gap(curr_train, MIN_TRAIN_DISTANCE \div UNIT, next_train),
               Ge(curr_train, start_time), Lt(curr_train, end_time)}
           : i \in 0..(F[e][rts[id].name] - 1)}
      : id \in DOMAIN rts, e \in DOMAIN F}

\* a check that lets a train come a tick's travel closer
MergeConflictLate(pos, last_train_pos, time_left) ==
    last_train_pos - MIN_TRAIN_DISTANCE < pos

\* line 548: the train at `pos` would come closer than the minimum distance
MergeConflict(pos, last_train_pos, time_left) ==
    last_train_pos - MIN_TRAIN_DISTANCE < pos + time_left

Moved(S) == [kind |-> "ok", sim |-> S, curr |-> None, other |-> None]

RECURSIVE SchedTrackLoop(_, _, _, _, _)
\* the while loop of lines 536-665
SchedTrackLoop(S, track, i, last_train_pos0, now) ==
    IF i >= Len(S.tracks[track].trains) THEN Moved(S)
    ELSE
      LET next_station_id == subway_map.edges[track].target
          length == S.tracks[track].length * UNIT
          last_train_pos == EffectiveLeader(S, track, last_train_pos0)
          q == S.tracks[track].trains
          curr_train_id == q[i + 1]
          pos0 == S.trains[curr_train_id].pos
      IN
      IF MergeConflict(pos0, last_train_pos, TIME_STEP) THEN
        IF Len(q) > i + 1
        THEN [kind |-> "conflict", sim |-> S, curr |-> curr_train_id,
              other |-> q[i + 2]]
        ELSE IF S.stations[next_station_id].train # None
        THEN [kind |-> "conflict", sim |-> S, curr |-> curr_train_id,
              other |-> S.stations[next_station_id].train]
        ELSE [kind |-> "panic", sim |-> S, curr |-> curr_train_id, other |-> None]
      ELSE
        LET travel_distance == TravelDistance(pos0, length, last_train_pos, TIME_STEP)
            pos1 == pos0 + travel_distance
            time_left == TIME_STEP - travel_distance
            S1 == [S EXCEPT !.trains[curr_train_id].pos = pos1]
        IN
        IF pos1 >= length /\ StationVacant(S, next_station_id)
        THEN SchedTrackLoop(StationToTrack(
                               EnterStation(S1, track, curr_train_id,
                                            travel_distance, now),
                               next_station_id, time_left),
                            track, i, last_train_pos, now)
        ELSE SchedTrackLoop(S1, track, i + 1, pos1, now)

RECURSIVE SchedMovement(_, _, _)
\* the for loop of lines 527-668; stops at the first conflict
SchedMovement(S, k, now) ==
    IF k > Len(traversal_order) THEN Moved(S)
    ELSE
      LET track_station == traversal_order[k] IN
      IF track_station.ty = "Station"
      THEN SchedMovement(StationToTrack(S, track_station.id, TIME_STEP), k + 1, now)
      ELSE LET r == SchedTrackLoop(S, track_station.id, 0, INFINITY, now) IN
           IF r.kind = "ok" THEN SchedMovement(r.sim, k + 1, now) ELSE r

\* the epoch of tick `now` (t as i64 / SCHEDULE_GRANULARITY)
Epoch(now) == now \div SCHEDULE_GRANULARITY + 1

\* a commit that leaves the epoch's remaining count as it is
CommitKeepsQuota(D, id, now) ==
    LET curr_train_id == TrainId(id, D.sim.curr_train_counts[id]) IN
    [D EXCEPT
       !.solver = AssertAll(@, {Eq(curr_train_id, now)}),
       !.sim = Dispatch(@, id, now),
       !.train_scheduled_at = (curr_train_id :> now) @@ @]

\* lines 719-738: the dispatch of curr_train_id at tick `now` is committed
Commit(D, id, now) ==
    LET curr_train_id == TrainId(id, D.sim.curr_train_counts[id]) IN
    [D EXCEPT
       !.solver = AssertAll(@, {Eq(curr_train_id, now)}),
       !.frequencies[Epoch(now)][routes[id].name] = @ - 1,
       !.sim = Dispatch(@, id, now),
       !.train_scheduled_at = (curr_train_id :> now) @@ @]

\* a check that never declares the schedule infeasible
InfeasibleNever(solver, curr_train_id, now) == FALSE

\* lines 707-708: the train cannot leave at tick `now` or later
Infeasible(solver, curr_train_id, now) ==
    ~Sat(Asserted(solver) \cup {Ge(curr_train_id, now)})

RECURSIVE SchedDispatchLoop(_, _, _, _)
\* the for loop of lines 671-740 over the shuffled routes
SchedDispatchLoop(D, ord, k, now) ==
    IF k > Len(ord) THEN D
    ELSE
      LET id == ord[k]
          route == routes[id]
          curr_train_id == TrainId(id, D.sim.curr_train_counts[id])
      IN
      IF Epoch(now) > Len(D.frequencies) THEN [D EXCEPT !.kind = "panic"]
      ELSE IF D.frequencies[Epoch(now)][route.name] = 0
      THEN SchedDispatchLoop(D, ord, k + 1, now)
      ELSE IF D.sim.stations[route.start_station].train # None
      THEN SchedDispatchLoop(D, ord, k + 1, now)
      ELSE IF Infeasible(D.solver, curr_train_id, now)
      THEN [D EXCEPT !.kind = "none"]
      ELSE IF ~Sat(Asserted(D.solver) \cup {Eq(curr_train_id, now)})
      THEN SchedDispatchLoop(D, ord, k + 1, now)
      ELSE SchedDispatchLoop(Commit(D, id, now), ord, k + 1, now)

\* the state of one loop iteration after the snapshot and the push
\* (lines 523-525) and the movement
AfterMovement ==
    SchedMovement(FreshTick(SimState), 1, t)

\* the dispatch step of the iteration, for the shuffled order `ord`
AfterDispatch(S, ord) ==
    SchedDispatchLoop([kind |-> "ok", sim |-> S, frequencies |-> frequencies,
                       solver |-> Push(z3_solver),
                       train_scheduled_at |-> train_scheduled_at],
                      ord, 1, t)

\* a clause that pairs each train with the other's dispatch tick
LearnedClauseSwapped(curr_train_id, conflicting_train, tsa) ==
    Conflict(conflicting_train, tsa[curr_train_id],
             curr_train_id, tsa[conflicting_train])

\* lines 585-593: the clause learned from a conflict
LearnedClause(curr_train_id, conflicting_train, tsa) ==
    Conflict(conflicting_train, tsa[conflicting_train],
             curr_train_id, tsa[curr_train_id])

\* a rollback to the dispatch of the trailing train, whichever was first
RollbackToTrailing(curr_train_id, conflicting_train, tsa) == tsa[curr_train_id]

\* line 557: the tick the run resumes from
RollbackTo(curr_train_id, conflicting_train, tsa) ==
    f64_min(tsa[curr_train_id], tsa[conflicting_train])

\* a retain that keeps the sample of the tick resumed from
RetainThrough(tp, scheduled_at) == SelectSeq(tp, LAMBDA p : p.time <= scheduled_at)

\* lines 567-569
Retain(tp, scheduled_at) == SelectSeq(tp, LAMBDA p : p.time < scheduled_at)

SetSim(S) ==
    /\ stations' = S.stations
    /\ tracks' = S.tracks
    /\ trains' = S.trains
    /\ curr_train_counts' = S.curr_train_counts
    /\ removed_log' = S.removed_log
    /\ retirements' = S.retirements

SchedInputsUnchanged ==
    /\ UNCHANGED << subway_map, routes, traversal_order, route_order, iterations,
                    frequency, desired_frequencies, prior_conflicts, twin, carry >>
    /\ OtherUnchanged

\* one loop iteration that runs to its end (lines 522-758)
SchedTick ==
    /\ pc = "sched"
    /\ t < iterations
    /\ AfterMovement.kind = "ok"
    /\ \E ord \in Orders(Len(routes)) :
         LET D == AfterDispatch(AfterMovement.sim, ord) IN
         /\ D.kind = "ok"
         /\ SetSim(D.sim)
         /\ frequencies' = D.frequencies
         /\ z3_solver' = D.solver
         /\ train_scheduled_at' = D.train_scheduled_at
         /\ train_to_route' = Registered(train_to_route, trains, D.sim)
         /\ train_positions' =
               IF t >= SampleFrom THEN Append(train_positions, Sample(D.sim, t))
               ELSE train_positions
    /\ states' = Append(states, [sim |-> SimState, frequencies |-> frequencies])
    /\ t' = t + 1
    /\ pc' = "sched"
    /\ last_conflict' = {}
    /\ UNCHANGED new_conflicts
    /\ SchedInputsUnchanged

\* a loop iteration that meets a merge conflict (lines 548-598)
SchedConflict ==
    /\ pc = "sched"
    /\ t < iterations
    /\ AfterMovement.kind = "conflict"
    /\ LET curr_train_id == AfterMovement.curr
           conflicting_train == AfterMovement.other
           scheduled_at ==
               RollbackTo(curr_train_id, conflicting_train, train_scheduled_at)
           pushed == Append(states, [sim |-> SimState, frequencies |-> frequencies])
           num_states_removed == Len(pushed) - scheduled_at
           prev_state == pushed[scheduled_at + 1]
           assertion ==
               LearnedClause(curr_train_id, conflicting_train, train_scheduled_at)
       IN
       /\ t' = scheduled_at
       /\ states' = SubSeq(pushed, 1, scheduled_at)
       /\ SetSim(prev_state.sim)
       /\ frequencies' = prev_state.frequencies
       /\ train_positions' = Retain(train_positions, scheduled_at)
       /\ z3_solver' =
             AssertAll(Pop(Push(z3_solver), num_states_removed),
                       {new_conflicts[i] : i \in 1..Len(new_conflicts)}
                       \cup {assertion})
       /\ new_conflicts' = Append(new_conflicts, assertion)
       /\ last_conflict' = {[curr |-> curr_train_id, other |-> conflicting_train,
                             at |-> t, back_to |-> scheduled_at]}
    /\ pc' = "sched"
    /\ UNCHANGED << train_to_route, train_scheduled_at >>
    /\ SchedInputsUnchanged

\* line 711: the next train of a route cannot be dispatched now or later
SchedNone ==
    /\ pc = "sched"
    /\ t < iterations
    /\ AfterMovement.kind = "ok"
    /\ \E ord \in Orders(Len(routes)) :
         LET D == AfterDispatch(AfterMovement.sim, ord) IN
         /\ D.kind = "none"
         /\ SetSim(D.sim)
         /\ frequencies' = D.frequencies
         /\ z3_solver' = D.solver
         /\ train_scheduled_at' = D.train_scheduled_at
         /\ train_to_route' = Registered(train_to_route, trains, D.sim)
    /\ states' = Append(states, [sim |-> SimState, frequencies |-> frequencies])
    /\ pc' = "none"
    /\ last_conflict' = {}
    /\ UNCHANGED << t, train_positions, new_conflicts >>
    /\ SchedInputsUnchanged

\* line 679: the tick lies beyond the last epoch of the frequency table
SchedPanic ==
    /\ pc = "sched"
    /\ t < iterations
    /\ \/ AfterMovement.kind = "panic"
       \/ /\ AfterMovement.kind = "ok"
          /\ \E ord \in Orders(Len(routes)) :
                AfterDispatch(AfterMovement.sim, ord).kind = "panic"
    /\ pc' = "panic"
    /\ UNCHANGED << stations, tracks, trains, curr_train_counts, removed_log,
                    retirements, t, train_positions, train_to_route,
                    frequencies, z3_solver, train_scheduled_at, states,
                    new_conflicts, last_conflict >>
    /\ SchedInputsUnchanged

\* lines 761-776: the loop is over, Some(results, new_conflicts) is returned
SchedReturn ==
    /\ pc = "sched"
    /\ t >= iterations
    /\ pc' = "some"
    /\ UNCHANGED << stations, tracks, trains, curr_train_counts, removed_log,
                    retirements, t, train_positions, train_to_route,
                    frequencies, z3_solver, train_scheduled_at, states,
                    new_conflicts, last_conflict >>
    /\ SchedInputsUnchanged

(* Bounds of the scheduling runs *)
MaxQuota == 2
MaxEpochs == 2

\* the smallest quota that cannot fit an epoch with the minimum gap
TooMany == SCHEDULE_GRANULARITY \div (MIN_TRAIN_DISTANCE \div UNIT) + 1

\* frequency tables: every route gets the same quota in an epoch; the
\* quotas are small, or just fit an epoch, or are one too many for it
Tables(rts) ==
    LET names == {rts[r].name : r \in DOMAIN rts}
        Table(qs) == [e \in DOMAIN qs |-> [n \in names |-> qs[e]]]
    IN {Table(qs) : qs \in UNION {[1..E -> 0..MaxQuota] : E \in 1..MaxEpochs}}
       \cup {Table(<<TooMany>>), Table(<<0, TooMany>>), Table(<<TooMany - 1>>)}

\* clauses handed in from earlier runs
PriorChoices(rts) ==
    {{}, {Conflict(TrainId(1, 0), 0, TrainId(Len(rts), 0), 0)}}

\* the networks of the scheduling runs
SchedNetworks ==
    {NetSingle(a) : a \in Lengths}
    \cup {NetLine(a, b) : a \in Lengths, b \in Lengths}
    \cup {NetMerge(a, b) : a \in 1..MaxLen, b \in 1..MaxLen}
    \cup {NetMid(a, b) : a \in 1..MaxLen, b \in 1..MaxLen}
    \cup {NetFork(a, a) : a \in 1..MaxLen}
    \cup {NetBoth(a) : a \in 1..MaxLen}

\* a call of schedule_trains on one of the networks `nets`
InitSchedOn(nets) ==
    /\ \E net \in nets : Construct(net)
    /\ route_order = [i \in DOMAIN routes |-> i]
    /\ frequency = 0
    /\ desired_frequencies \in Tables(routes)
    /\ prior_conflicts \in PriorChoices(routes)
    /\ iterations \in
          {SCHEDULE_GRANULARITY * Len(desired_frequencies)}
          \cup (IF Len(routes) = 1 /\ Len(desired_frequencies) = 1
                THEN {0, MaxIter, SCHEDULE_GRANULARITY + 1} ELSE {})
          \cup (IF Len(routes) = 1 /\ Len(desired_frequencies) = 2
                THEN {SCHEDULE_GRANULARITY} ELSE {})
    /\ frequencies = desired_frequencies
    /\ z3_solver = <<Axioms(desired_frequencies, routes) \cup prior_conflicts>>
    /\ t = 0
    /\ pc = "sched"
    /\ train_scheduled_at = <<>>
    /\ states = <<>>
    /\ new_conflicts = <<>>
    /\ last_conflict = {}
    /\ NoPlanner
    /\ NoOptimize
    /\ twin = <<>>
    /\ carry = <<>>

InitSched == InitSchedOn(SchedNetworks)

NextSched == SchedTick \/ SchedConflict \/ SchedNone \/ SchedPanic \/ SchedReturn

SpecSched == InitSched /\ [][NextSched]_vars

\* both entry points
InitAll == Init \/ InitSched

NextAll == Next \/ NextSched

SpecAll == InitAll /\ [][NextAll]_vars

----------------------------------------------------------------------------
(* The route planner: SearchMap::generate, shortest_paths, search_to_path. *)
(* The search graph is a petgraph Graph: nodes and edges are sequences,    *)
(* a NodeIndex or EdgeIndex is a position in them.                         *)

\* SearchEdge::cost of a disabled edge
DISABLED_COST == 1000

SearchNode(route, old_node) == [route |-> route, old_node |-> old_node]

SearchEdge(s, d, ty, w) ==
    [source |-> s, target |-> d, ty |-> ty, weight |-> w, disabled |-> FALSE]

cost(edge) == IF edge.disabled THEN DISABLED_COST ELSE edge.weight

RECURSIVE Flatten(_)
\* the concatenation of a sequence of sequences
Flatten(ss) == IF ss = <<>> THEN <<>> ELSE Head(ss) \o Flatten(Tail(ss))

\* the closure create_node of generate: the copy of old_node for the route
\* `name`, made on first use
CreateNode(sm, name, old_node) ==
    IF \E i \in DOMAIN sm.map.nodes : sm.map.nodes[i] = SearchNode(name, old_node)
    THEN sm
    ELSE LET route_node == Len(sm.map.nodes) + 1 IN
         [sm EXCEPT !.map.nodes = Append(@, SearchNode(name, old_node)),
                    !.old_to_new_nodes =
                        IF old_node \in DOMAIN @
                        THEN [@ EXCEPT ![old_node] = Append(@, route_node)]
                        ELSE @ @@ (old_node :> <<route_node>>)]

\* route_old_to_new_nodes[(name, old_node)]
RouteNode(sm, name, old_node) ==
    CHOOSE i \in DOMAIN sm.map.nodes : sm.map.nodes[i] = SearchNode(name, old_node)

AddEdge(sm, edge) == [sm EXCEPT !.map.edges = Append(@, edge)]

\* the pairs (route, edge) in the order generate visits them
RouteEdgeList(rts) ==
    Flatten([r \in DOMAIN rts |->
               LET keys == AscSeq(DOMAIN rts[r].station_to) IN
               [i \in DOMAIN keys |-> <<r, rts[r].station_to[keys[i]]>>]])

RECURSIVE AddRouteEdges(_, _, _, _)
\* lines 988-1018: every route gets its own nodes and edges
AddRouteEdges(graph, rts, list, sm) ==
    IF list = <<>> THEN sm
    ELSE
      LET name == rts[Head(list)[1]].name
          edge == graph.edges[Head(list)[2]]
          made == CreateNode(CreateNode(sm, name, edge.source), name, edge.target)
          new_start_node == RouteNode(made, name, edge.source)
          new_end_node == RouteNode(made, name, edge.target)
      IN AddRouteEdges(graph, rts, Tail(list),
            AddEdge(made, SearchEdge(new_start_node, new_end_node,
                                     edge.ty, edge.weight)))

\* lines 1022-1037: the copies of one station are joined by walk edges of
\* weight 1, from the earlier copy to the later one
TransferEdges(sm) ==
    Flatten([s \in 1..Len(AscSeq(DOMAIN sm.old_to_new_nodes)) |->
       LET related_nodes == sm.old_to_new_nodes[AscSeq(DOMAIN sm.old_to_new_nodes)[s]]
           n == Len(related_nodes)
       IN Flatten([i \in 1..(n - 1) |->
             [d \in 1..(n - i) |->
                SearchEdge(related_nodes[i], related_nodes[i + d], "Walk", 1)]])])

\* lines 1040-1058: the walk edges of the graph, between all the copies of
\* their end stations, where both stations are served
WalkEdges(graph, sm) ==
    Flatten([e \in DOMAIN graph.edges |->
       LET edge == graph.edges[e] IN
       IF edge.ty = "Walk" /\ edge.source \in DOMAIN sm.old_to_new_nodes
                           /\ edge.target \in DOMAIN sm.old_to_new_nodes
       THEN LET new_nodes1 == sm.old_to_new_nodes[edge.source]
                new_nodes2 == sm.old_to_new_nodes[edge.target]
            IN Flatten([i \in DOMAIN new_nodes1 |->
                  [j \in DOMAIN new_nodes2 |->
                     SearchEdge(new_nodes1[i], new_nodes2[j], edge.ty, edge.weight)]])
       ELSE <<>>])

\* SearchMap::generate (the edge maps old_to_new_edges and new_to_old_edges
\* are read by no function and are left out)
Generate(graph, rts) ==
    LET empty == [map |-> [nodes |-> <<>>, edges |-> <<>>],
                  old_to_new_nodes |-> <<>>]
        routed == AddRouteEdges(graph, rts, RouteEdgeList(rts), empty)
        joined == [routed EXCEPT !.map.edges = @ \o TransferEdges(routed)]
    IN [joined EXCEPT !.map.edges = @ \o WalkEdges(graph, joined)]

\* the elements of a sequence
Range(s) == {s[i] : i \in DOMAIN s}

\* one round of edge relaxation over the distances known so far
Relaxed(g, dist) ==
    LET Into(v) == {e \in DOMAIN g.edges :
                      g.edges[e].target = v /\ g.edges[e].source \in DOMAIN dist}
        Cand(v) == (IF v \in DOMAIN dist THEN {dist[v]} ELSE {})
                   \cup {dist[g.edges[e].source] + cost(g.edges[e]) : e \in Into(v)}
    IN [v \in {v \in DOMAIN g.nodes : Cand(v) # {}} |-> SetMin(Cand(v))]

RECURSIVE Distances(_, _, _)
Distances(g, dist, n) ==
    IF n = 0 THEN dist ELSE Distances(g, Relaxed(g, dist), n - 1)

\* Option::None of an EdgeIndex, Terminated::Exhaustive: indices start at 1
NoEdge == 0
Exhaustive == 0

\* crate::shortest_path::dijkstra: the least cost from `source` to every
\* node it reaches with the edge that achieves it, and the first node of
\* `targets` to be extracted.  Equal costs are resolved by `tie`.
dijkstra(g, source, targets, tie) ==
    LET dist == Distances(g, (source :> 0), Len(g.nodes))
        Pick(S) == IF tie = "first" THEN SetMin(S) ELSE SetMax(S)
        Pred(v) == IF v = source THEN NoEdge
                   ELSE Pick({e \in DOMAIN g.edges :
                                /\ g.edges[e].target = v
                                /\ g.edges[e].source \in DOMAIN dist
                                /\ dist[g.edges[e].source] + cost(g.edges[e]) = dist[v]})
        reached == targets \cap DOMAIN dist
    IN [costs |-> [v \in DOMAIN dist |-> [cost |-> dist[v], edge |-> Pred(v)]],
        destination |->
            IF reached = {} THEN Exhaustive
            ELSE Pick({v \in reached : \A w \in reached : dist[v] <= dist[w]})]

PathSegment(routes_spanned, c, start_node, end_node, edge_to_next) ==
    [routes |-> routes_spanned, cost |-> c, start_node |-> start_node,
     end_node |-> end_node, edge_to_next |-> edge_to_next]

\* the routes with a copy of the station that `node` copies
RoutesAt(sm, node) ==
    {sm.map.nodes[i].route :
        i \in Range(sm.old_to_new_nodes[sm.map.nodes[node].old_node])}

RECURSIVE SearchLoop(_, _, _, _, _, _, _, _)
\* the loop of search_to_path (lines 1218-1258), from the destination back
\* to the start of the search
SearchLoop(sm, costs, curr_edge, paths, curr_end_node, curr_start_node, segment_cost, currently_in_segment) ==
    LET edge_ref == sm.map.edges[curr_edge]
        source_node == edge_ref.source
        walk == edge_ref.ty = "Walk"
        paths1 ==
            IF walk /\ currently_in_segment
            THEN Append(paths,
                   PathSegment(RoutesAt(sm, curr_start_node)
                                  \cap RoutesAt(sm, curr_end_node),
                               segment_cost, curr_start_node, curr_end_node,
                               curr_edge))
            ELSE paths
        end1 == IF ~walk /\ ~currently_in_segment THEN edge_ref.target
                ELSE curr_end_node
        start1 == IF walk THEN curr_start_node ELSE edge_ref.source
        cost1 == IF walk THEN 0 ELSE segment_cost + edge_ref.weight
    IN IF costs[source_node].edge = NoEdge THEN paths1
       ELSE SearchLoop(sm, costs, costs[source_node].edge, paths1, end1,
                       start1, cost1, ~walk)

Reverse(s) == [i \in DOMAIN s |-> s[Len(s) + 1 - i]]

search_to_path(sm, costs, destination) ==
    LET curr_edge == costs[destination].edge
        curr_end_node == sm.map.edges[curr_edge].source
    IN Reverse(SearchLoop(sm, costs, curr_edge, <<>>, curr_end_node,
                          curr_end_node, 0, FALSE))

RECURSIVE Chain(_, _, _)
\* history: the edges that the search took to reach `node`, last edge first
Chain(sm, costs, node) ==
    IF costs[node].edge = NoEdge THEN <<>>
    ELSE <<sm.map.edges[costs[node].edge]>>
         \o Chain(sm, costs, sm.map.edges[costs[node].edge].source)

\* lines 1138-1160: the edges switched off to find an alternative to
\* segment i of the best path
DisabledEdges(sm, path, i) ==
    LET segment == path[i] IN
    IF i = Len(path)
    THEN LET original_end_node == sm.map.nodes[segment.end_node].old_node
             ends == {new_node \in Range(sm.old_to_new_nodes[original_end_node]) :
                         sm.map.nodes[new_node].route \in segment.routes}
         IN {e \in DOMAIN sm.map.edges : sm.map.edges[e].target \in ends}
    ELSE {e \in DOMAIN sm.map.edges :
            /\ sm.map.edges[e].source = segment.end_node
            /\ sm.map.edges[e].ty = "Walk"}

Disable(sm, disabled_edges) ==
    [sm EXCEPT !.map.edges =
        [e \in DOMAIN @ |-> IF e \in disabled_edges
                            THEN [@[e] EXCEPT !.disabled = TRUE] ELSE @[e]]]

RECURSIVE Alternatives(_, _, _, _, _, _, _, _)
\* the for loop of lines 1132-1187 over the segments of the best path;
\* found = [paths, chains]
Alternatives(sm, path, i, k, found, virtual_start_node, valid_end_nodes, tie) ==
    IF i > Len(path) \/ k = 0 THEN found
    ELSE
      LET search == dijkstra(Disable(sm, DisabledEdges(sm, path, i)).map,
                             virtual_start_node, valid_end_nodes, tie)
      IN IF search.destination = Exhaustive
         THEN Alternatives(sm, path, i + 1, k, found, virtual_start_node,
                           valid_end_nodes, tie)
         ELSE Alternatives(sm, path, i + 1, k - 1,
                [paths |-> Append(found.paths,
                              search_to_path(sm, search.costs, search.destination)),
                 chains |-> Append(found.chains,
                              Chain(sm, search.costs, search.destination))],
                virtual_start_node, valid_end_nodes, tie)

\* shortest_paths: the value returned (paths), what becomes of the search
\* map, and whether the call panics; chains is history (the edges of
\* every returned path)
ShortestPaths(start, end, sm, k, tie) ==
    IF \/ k < 1
       \/ end \notin DOMAIN sm.old_to_new_nodes
       \/ start \notin DOMAIN sm.old_to_new_nodes
    THEN [kind |-> "panic", paths |-> <<>>, chains |-> <<>>, search_map |-> sm]
    ELSE
      LET valid_end_nodes == Range(sm.old_to_new_nodes[end])
          start_nodes == sm.old_to_new_nodes[start]
          virtual_start_node == Len(sm.map.nodes) + 1
          searched ==
              [sm EXCEPT
                 !.map.nodes = Append(@, SearchNode("", 0)),
                 !.map.edges = @ \o [i \in DOMAIN start_nodes |->
                     SearchEdge(virtual_start_node, start_nodes[i], "Walk", 0)]]
          best == dijkstra(searched.map, virtual_start_node, valid_end_nodes, tie)
      IN IF best.destination = Exhaustive
         THEN [kind |-> "ok", paths |-> <<>>, chains |-> <<>>,
               search_map |-> searched]
         ELSE
           LET path == search_to_path(searched, best.costs, best.destination)
               found == Alternatives(searched, path, 1, k - 1,
                                     [paths |-> <<>>, chains |-> <<>>],
                                     virtual_start_node, valid_end_nodes, tie)
           IN [kind |-> "ok",
               paths |-> Append(found.paths, path),
               chains |-> Append(found.chains,
                                 Chain(searched, best.costs, best.destination)),
               search_map |-> sm]

----------------------------------------------------------------------------
(* The cost of a schedule: calculate_time_to, calculate_costs.  Costs are  *)
(* f64 sums of integers, of multiples of 2.5 and of 12 / f * 2.1 with f a  *)
(* total frequency; they are counted in units of 1 / CostUnit, which is    *)
(* exact for every total frequency up to SCHEDULE_GRANULARITY.             *)

\* the multipliers, in tenths
WALK_MULTIPLIER == 25
WAIT_MULTIPLIER == 21
SCHEDULE_PERIOD == 120

\* ten times the least common multiple of 1..12
CostUnit == 10 * (8 * 9 * 5 * 7 * 11)

\* integer division of Rust: the quotient is truncated towards zero
RustDiv(a, b) == IF a >= 0 THEN a \div b ELSE -((-a) \div b)

RECURSIVE calculate_time_to(_, _)
\* the time from the start of a route to `node`, in half units: the
\* incoming track edges are followed back, the edge added last first
calculate_time_to(sm, node) ==
    LET incoming == {e \in DOMAIN sm.map.edges :
                       sm.map.edges[e].target = node /\ sm.map.edges[e].ty = "Track"}
    IN IF incoming = {} THEN 0
       ELSE LET edge == sm.map.edges[SetMax(incoming)]
            IN edge.weight * UNIT + STATION_DWELL_TIME
               + calculate_time_to(sm, edge.source)

\* the wait for a train at a total frequency (line 1333)
Wait(total_frequency) ==
    (SCHEDULE_GRANULARITY * WAIT_MULTIPLIER * (CostUnit \div 10)) \div total_frequency

\* lines 1338-1346: the walk to the next segment
WalkTime(sm, edge_idx) ==
    IF edge_idx = NoEdge \/ edge_idx \notin DOMAIN sm.map.edges THEN 0
    ELSE sm.map.edges[edge_idx].weight * WALK_MULTIPLIER * (CostUnit \div 10)

\* lines 1313-1327: the trains per epoch that serve a segment boarded at
\* curr_time
TotalFrequency(sm, F, segment, curr_time) ==
    LET time_to_start == calculate_time_to(sm, segment.start_node)
        schedule_idx ==
            RustDiv(curr_time \div CostUnit - time_to_start \div UNIT,
                    SCHEDULE_GRANULARITY)
        names == AscSeq({r \in 1..Len(routes) : routes[r].name \in segment.routes})
    IN IF schedule_idx < 0 \/ schedule_idx >= Len(F) THEN 0
       ELSE SeqSum([i \in DOMAIN names |-> F[schedule_idx + 1][routes[names[i]].name]])

RECURSIVE SegmentLoop(_, _, _, _, _, _)
\* the loop over the segments of one path (lines 1311-1347); a path with a
\* segment that no train serves costs F64_INFINITY (continue 'path)
SegmentLoop(sm, F, path, i, curr_time, c) ==
    IF i > Len(path) THEN c
    ELSE
      LET segment == path[i]
          total_frequency == TotalFrequency(sm, F, segment, curr_time)
          total_segment_cost == segment.cost * CostUnit + Wait(total_frequency)
          walk_time == WalkTime(sm, segment.edge_to_next)
      IN IF total_frequency = 0 THEN F64_INFINITY
         ELSE SegmentLoop(sm, F, path, i + 1,
                          curr_time + total_segment_cost + walk_time,
                          c + total_segment_cost + walk_time)

\* lines 1305-1352: the cheapest path of a trip, times its passengers
TripCost(sm, F, time, trip, sp) ==
    LET paths == sp[<<trip.start, trip.end>>]
        cheapest ==
            SetMin({F64_INFINITY}
                   \cup {SegmentLoop(sm, F, paths[p], 1, time * CostUnit, 0) :
                           p \in DOMAIN paths})
    IN IF cheapest < F64_INFINITY THEN cheapest * trip.count ELSE 0

RECURSIVE SumOver(_, _)
\* the sum of f over the set S
SumOver(f, S) ==
    IF S = {} THEN 0
    ELSE LET x == CHOOSE y \in S : TRUE IN f[x] + SumOver(f, S \ {x})

calculate_costs(sm, F, td, sp) ==
    SumOver([time \in DOMAIN td |->
               SeqSum([i \in DOMAIN td[time] |->
                          TripCost(sm, F, time, td[time][i], sp)])],
            DOMAIN td)

----------------------------------------------------------------------------
(* optimize: the coordinate descent over the frequency table.  The table   *)
(* `frequencies` of optimize is the argument desired_frequencies of        *)
(* schedule_trains, its vector `conflicts` the argument prior_conflicts.   *)
(* A fragment is a pair (epoch, route name); epochs count from 1.          *)

\* the SimulationResults built at lines 761-775
SimulationResults ==
    [train_positions |-> train_positions,
     train_to_route |-> train_to_route,
     station_statistics |-> [s \in DOMAIN stations |-> stations[s].arrival_times],
     none |-> FALSE]

Bump(F, fragment, by) == [F EXCEPT ![fragment[1]][fragment[2]] = @ + by]

\* a scan that does not look at the blacklist
CandidatesAll ==
    {fragment \in (DOMAIN desired_frequencies) \X {routes[r].name : r \in DOMAIN routes} :
        desired_frequencies[fragment[1]][fragment[2]] < SCHEDULE_GRANULARITY}

\* line 864-869: the fragments that the scan tries
Candidates ==
    {fragment \in (DOMAIN desired_frequencies) \X {routes[r].name : r \in DOMAIN routes} :
        /\ fragment \notin blacklisted_fragments
        /\ desired_frequencies[fragment[1]][fragment[2]] < SCHEDULE_GRANULARITY}

\* lines 870-878: the cost if the frequency of the fragment goes up by one
EstimatedCost(fragment) ==
    calculate_costs(search_map, Bump(desired_frequencies, fragment, 1),
                    trip_data, shortest_paths)

\* lines 879-882: a later fragment replaces the best one only with a
\* strictly lower cost, so the best fragment is one of the first epoch
\* that reaches the lowest cost; within an epoch the routes come in the
\* order of a HashMap
BestFragments ==
    {fragment \in Candidates :
        /\ EstimatedCost(fragment) < F64_INFINITY
        /\ \A other \in Candidates :
              /\ EstimatedCost(fragment) <= EstimatedCost(other)
              /\ EstimatedCost(other) = EstimatedCost(fragment)
                    => fragment[1] <= other[1]}

\* the state in which schedule_trains starts its loop (lines 448-520)
EnterSchedule(F, conflicts) ==
    /\ frequencies' = F
    /\ z3_solver' = <<Axioms(F, routes) \cup conflicts>>
    /\ t' = 0
    /\ train_scheduled_at' = <<>>
    /\ states' = <<>>
    /\ new_conflicts' = <<>>
    /\ last_conflict' = {}
    /\ train_positions' = <<>>
    /\ train_to_route' = <<>>
    /\ pc' = "sched"

OptInputsUnchanged ==
    UNCHANGED << subway_map, routes, traversal_order, route_order, iterations,
                 frequency, caller, trip_data, shortest_paths, search_map,
                 dijkstra_tie, answers, twin, carry >>

\* a reset that leaves the track queues as they are
resetKeepsQueues(S) ==
    [S EXCEPT !.trains = <<>>,
              !.curr_train_counts = [r \in DOMAIN routes |-> 0],
              !.stations = [n \in DOMAIN S.stations |->
                  [S.stations[n] EXCEPT !.arrival_times = [r \in {} |-> <<>>],
                                        !.train = None]]]

\* lines 216-226: Simulator::reset clears the trains, the counts, every
\* station's arrival times and train, and every track's queue
reset(S) ==
    [S EXCEPT !.trains = <<>>,
              !.curr_train_counts = [r \in DOMAIN routes |-> 0],
              !.stations = [n \in DOMAIN S.stations |->
                  [S.stations[n] EXCEPT !.arrival_times = [r \in {} |-> <<>>],
                                        !.train = None]],
              !.tracks = [e \in DOMAIN S.tracks |->
                  [S.tracks[e] EXCEPT !.trains = <<>>]]]

\* lines 859-902: the scan for the best fragment, its increment, and the
\* call of schedule_trains
OptScan ==
    /\ pc = "optimize"
    /\ \E fragment \in BestFragments :
         /\ best_fragment' = fragment
         /\ lowest_cost' = EstimatedCost(fragment)
         /\ desired_frequencies' = Bump(desired_frequencies, fragment, 1)
         /\ EnterSchedule(Bump(desired_frequencies, fragment, 1), prior_conflicts)
    /\ UNCHANGED << stations, tracks, trains, curr_train_counts, removed_log,
                    retirements, prior_conflicts, blacklisted_fragments,
                    curr_cost, curr_schedule, curr_simulation_results,
                    accepted, accepted_results >>
    /\ OptInputsUnchanged

\* lines 887-893: no fragment is left, the schedule and the results are
\* returned
OptReturn ==
    /\ pc = "optimize"
    /\ BestFragments = {}
    /\ pc' = "returned"
    /\ UNCHANGED << stations, tracks, trains, curr_train_counts, removed_log,
                    retirements, t, train_positions, train_to_route,
                    desired_frequencies, frequencies, prior_conflicts,
                    z3_solver, train_scheduled_at, states, new_conflicts,
                    last_conflict, blacklisted_fragments, curr_cost,
                    curr_schedule, curr_simulation_results, best_fragment,
                    lowest_cost, accepted, accepted_results >>
    /\ OptInputsUnchanged

\* a cost that takes the estimate even when the run has failed
RunCostOfEstimate == lowest_cost

\* line 906-912: the cost of the run that has returned
RunCost == IF pc = "some" THEN lowest_cost ELSE F64_INFINITY

\* an acceptance that also keeps an increment of equal cost
AcceptsEqual(c, curr) == c <= curr

\* line 914: the increment is kept
Accepts(c, curr) == c < curr

\* lines 903-912: simulator.reset(), and what a run that succeeded leaves
\* behind; the locals of schedule_trains are gone
AfterSchedule ==
    /\ caller = "optimize"
    /\ pc \in {"some", "none"}
    /\ stations' = reset(SimState).stations
    /\ tracks' = reset(SimState).tracks
    /\ trains' = reset(SimState).trains
    /\ curr_train_counts' = reset(SimState).curr_train_counts
    /\ removed_log' = {}
    /\ curr_simulation_results' =
          IF pc = "some" THEN SimulationResults ELSE curr_simulation_results
    /\ prior_conflicts' =
          IF pc = "some" THEN prior_conflicts \cup Range(new_conflicts)
          ELSE prior_conflicts
    /\ frequencies' = <<>>
    /\ z3_solver' = <<>>
    /\ train_scheduled_at' = <<>>
    /\ states' = <<>>
    /\ new_conflicts' = <<>>
    /\ last_conflict' = {}
    /\ train_positions' = <<>>
    /\ train_to_route' = <<>>
    /\ t' = 0
    /\ pc' = "optimize"
    /\ UNCHANGED << retirements, best_fragment, lowest_cost >>
    /\ OptInputsUnchanged

\* lines 914-916: the run costs less than the schedule kept so far
OptAccept ==
    /\ AfterSchedule
    /\ Accepts(RunCost, curr_cost)
    /\ curr_cost' = RunCost
    /\ curr_schedule' = [curr_schedule EXCEPT ![best_fragment[2]][best_fragment[1]] = @ + 1]
    /\ accepted' = Append(accepted, RunCost)
    /\ accepted_results' = SimulationResults
    /\ UNCHANGED << desired_frequencies, blacklisted_fragments >>

\* lines 917-923: the increment is taken back and the fragment blacklisted
OptReject ==
    /\ AfterSchedule
    /\ ~Accepts(RunCost, curr_cost)
    /\ desired_frequencies' = Bump(desired_frequencies, best_fragment, -1)
    /\ blacklisted_fragments' = blacklisted_fragments \cup {best_fragment}
    /\ UNCHANGED << curr_cost, curr_schedule, accepted, accepted_results >>

\* the trips of the optimizing runs: none, or passengers from the start of
\* the first route to the end of its first track, one early or some late
\* in the period
MaxCount == 2
LateTrip == 30

TripChoices(net) ==
    LET first == net.routes[1]
        edge == net.map.edges[first.station_to[first.start_station]]
        trip(n) == [start |-> edge.source, end |-> edge.target, count |-> n]
    IN {<<>>, (0 :> <<trip(1)>>), (LateTrip :> <<trip(MaxCount)>>)}

\* the paths of the trips, found with k = 1 as run_optimize does
PathsOf(sm, td, tie) ==
    LET pairs == UNION {{<<td[time][i].start, td[time][i].end>> : i \in DOMAIN td[time]}
                        : time \in DOMAIN td}
    IN [pair \in pairs |-> ShortestPaths(pair[1], pair[2], sm, 1, tie).paths]

OptNetworks == {NetSingle(1), NetLine(1, LongLen)}

InitOpt ==
    /\ \E net \in OptNetworks :
         /\ Construct(net)
         /\ trip_data \in TripChoices(net)
    /\ route_order = [i \in DOMAIN routes |-> i]
    /\ frequency = 0
    /\ iterations = SCHEDULE_PERIOD
    /\ caller = "optimize"
    /\ search_map = Generate(subway_map, routes)
    /\ dijkstra_tie = "first"
    /\ answers = <<>>
    /\ shortest_paths = PathsOf(search_map, trip_data, dijkstra_tie)
    /\ desired_frequencies =
          [e \in 1..(SCHEDULE_PERIOD \div SCHEDULE_GRANULARITY) |->
              [n \in {routes[r].name : r \in DOMAIN routes} |-> 1]]
    /\ blacklisted_fragments = {}
    /\ curr_cost = F64_MAX
    /\ curr_schedule =
          [n \in {routes[r].name : r \in DOMAIN routes} |->
              [e \in 1..(SCHEDULE_PERIOD \div SCHEDULE_GRANULARITY) |-> 1]]
    /\ curr_simulation_results = NoResults
    /\ prior_conflicts = {}
    /\ best_fragment = NoFragment
    /\ lowest_cost = F64_INFINITY
    /\ accepted = <<>>
    /\ accepted_results = NoResults
    /\ twin = <<>>
    /\ carry = <<>>
    /\ frequencies = <<>>
    /\ z3_solver = <<>>
    /\ train_scheduled_at = <<>>
    /\ states = <<>>
    /\ new_conflicts = <<>>
    /\ last_conflict = {}
    /\ t = 0
    /\ pc = "optimize"

NextOpt == OptScan \/ OptReturn \/ OptAccept \/ OptReject \/ NextSched

\* schedule_trains is entered from optimize or on its own
InitOptAll == InitOpt \/ InitSchedOn({NetLine(1, LongLen)})

SpecOpt == InitOptAll /\ [][NextOpt]_vars

----------------------------------------------------------------------------
(* The planner as a program: a search map is generated and queried, as the *)
(* commands shortest_path and run_optimize of main.rs do.                  *)

\* S -> X -> T on route R1 and S -> Y -> T on route R2, X <-> Y on foot
\* (S=1, X=2, T=3, Y=4)
NetDiamond(a, b) ==
    [map |-> [nodes |-> 1..4,
              edges |-> <<Edge(1, 2, a, "Track"), Edge(2, 3, a, "Track"),
                          Edge(1, 4, b, "Track"), Edge(4, 3, b, "Track"),
                          Edge(2, 4, 1, "Walk"), Edge(4, 2, 1, "Walk")>>],
     routes |-> <<Route("R1", 1, (1 :> 1) @@ (2 :> 2), 0),
                  Route("R2", 1, (1 :> 3) @@ (4 :> 4), 0)>>]

\* A -> B -> C with the route [A,B] only: no route serves C
NetSpur(a) ==
    [map |-> [nodes |-> 1..3,
              edges |-> <<Edge(1, 2, a, "Track"), Edge(2, 3, a, "Track")>>],
     routes |-> <<Route("R1", 1, (1 :> 1), 0)>>]

MaxK == 3
MaxQueries == 2

PlanNetworks ==
    {NetDiamond(a, b) : a \in 1..MaxLen, b \in 1..MaxLen}
    \cup {NetSpur(a) : a \in 1..MaxLen}
    \cup {NetMid(a, b) : a \in 1..MaxLen, b \in 1..MaxLen}
    \cup {NetJoin(1, 1), NetFork(1, 1), NetMerge(1, 1), NetBoth(1)}

InitPlan ==
    /\ \E net \in PlanNetworks : Construct(net)
    /\ route_order = [i \in DOMAIN routes |-> i]
    /\ search_map = Generate(subway_map, routes)
    /\ dijkstra_tie \in {"first", "last"}
    /\ answers = <<>>
    /\ iterations = 0
    /\ frequency = 0
    /\ t = 0
    /\ pc = "planner"
    /\ NoSchedule
    /\ NoOptimize
    /\ twin = <<>>
    /\ carry = <<>>

PlanUnchanged ==
    UNCHANGED << subway_map, routes, traversal_order, route_order, stations,
                 tracks, trains, curr_train_counts, t, iterations, frequency,
                 train_positions, train_to_route, removed_log, retirements,
                 desired_frequencies, frequencies, prior_conflicts, z3_solver,
                 train_scheduled_at, states, new_conflicts, last_conflict,
                 dijkstra_tie, caller, trip_data, shortest_paths,
                 blacklisted_fragments, curr_cost, curr_schedule,
                 curr_simulation_results, best_fragment, lowest_cost,
                 accepted, accepted_results, twin, carry >>

Answer(start, end, k, found) ==
    [start |-> start, end |-> end, k |-> k, kind |-> found.kind,
     paths |-> found.paths, chains |-> found.chains]

\* a call of shortest_paths that returns
PlanPaths ==
    /\ pc = "planner"
    /\ Len(answers) < MaxQueries
    /\ \E start \in subway_map.nodes, end \in subway_map.nodes, k \in 0..MaxK :
         LET found == ShortestPaths(start, end, search_map, k, dijkstra_tie) IN
         /\ found.kind = "ok"
         /\ search_map' = found.search_map
         /\ answers' = Append(answers, Answer(start, end, k, found))
    /\ pc' = "planner"
    /\ PlanUnchanged

\* a call of shortest_paths that panics: k = 0 (line 1087), or a station
\* without an entry in old_to_new_nodes (lines 1088 and 1093)
PlanPanic ==
    /\ pc = "planner"
    /\ Len(answers) < MaxQueries
    /\ \E start \in subway_map.nodes, end \in subway_map.nodes, k \in 0..MaxK :
         LET found == ShortestPaths(start, end, search_map, k, dijkstra_tie) IN
         /\ found.kind = "panic"
         /\ answers' = Append(answers, Answer(start, end, k, found))
    /\ pc' = "panic"
    /\ UNCHANGED search_map
    /\ PlanUnchanged

NextPlan == PlanPaths \/ PlanPanic

SpecPlan == InitPlan /\ [][NextPlan]_vars

----------------------------------------------------------------------------
(* Claims *)

\* adjacent trains of every track queue keep the minimum distance
QueueGapOK(trk, trn) ==
    \A e \in DOMAIN trk :
        \A i \in 1..(Len(trk[e].trains) - 1) :
            trn[trk[e].trains[i]].pos >=
                trn[trk[e].trains[i + 1]].pos + MIN_TRAIN_DISTANCE

\* C1: in every state reached by run, on every track, the train nearer the
\* head of the queue is at least MIN_TRAIN_DISTANCE ahead of the next one.
C1_TrackGap == pc \in {"run", "done"} => QueueGapOK(tracks, trains)

\* section records and trains agree
RecordsAgree(stn, trk, trn) ==
    /\ \A s \in DOMAIN stn :
          stn[s].train # None =>
              /\ stn[s].train \in DOMAIN trn
              /\ trn[stn[s].train].curr_section = Station(s)
    /\ \A e \in DOMAIN trk :
          /\ \A i \in 1..Len(trk[e].trains) :
                /\ trk[e].trains[i] \in DOMAIN trn
                /\ trn[trk[e].trains[i]].curr_section = Track(e)
          /\ \A i, j \in 1..Len(trk[e].trains) :
                i # j => trk[e].trains[i] # trk[e].trains[j]
    /\ \A id \in DOMAIN trn :
          LET sec == trn[id].curr_section IN
          /\ sec.ty = "Station" => sec.id \in DOMAIN stn /\ stn[sec.id].train = id
          /\ sec.ty = "Track" =>
                /\ sec.id \in DOMAIN trk
                /\ \E i \in 1..Len(trk[sec.id].trains) : trk[sec.id].trains[i] = id

\* C2: after every tick of run and of schedule_trains, also after a
\* rollback, a station's train field names exactly the live train whose
\* section is that station, a track's queue holds exactly the live trains
\* whose section is that track, and every live train is recorded once.
C2_RecordsAgree == RecordsAgree(stations, tracks, trains)

\* a tick of schedule_trains resumed after a rollback, with trains both in
\* stations and on tracks
C2_Witness ==
    /\ pc = "sched"
    /\ Len(new_conflicts) > 0
    /\ last_conflict = {}
    /\ \E s \in DOMAIN stations : stations[s].train # None
    /\ \E e \in DOMAIN tracks : Len(tracks[e].trains) >= 1

\* the trains minted by a step
Minted ==
    UNION {{TrainId(r, c) : c \in curr_train_counts[r]..(curr_train_counts'[r] - 1)}
           : r \in DOMAIN routes}

\* the live trains are the dispatched ones less the removed ones, and every
\* removal of the last tick happened after the dwell at a route's end
LiveCount ==
    /\ Cardinality(DOMAIN trains) = SeqSum(curr_train_counts) - retirements
    /\ \A x \in removed_log :
          /\ x.station \notin DOMAIN routes[x.id.route_idx].station_to
          /\ x.pos >= STATION_DWELL_TIME

\* a tick adds exactly the trains the dispatch step minted, each at its
\* start station, and drops exactly the trains removed at a route's end
TickConserves ==
    t' > t =>
        /\ DOMAIN trains' \ DOMAIN trains = Minted
        /\ \A id \in Minted :
              /\ trains'[id].curr_section =
                    Station(routes[id.route_idx].start_station)
              /\ trains'[id].pos = 0
        /\ DOMAIN trains \ DOMAIN trains' = {x.id : x \in removed_log'}

\* C3: in run, trains enter the live set only through the dispatch step
\* and leave it only after the dwell at a station with no next track on
\* their route; the live trains number the dispatches less the removals.
C3_Conservation == [](pc \in {"run", "done"} => LiveCount) /\ [][TickConserves]_vars

C3_Witness ==
    /\ pc = "run"
    /\ removed_log # {}
    /\ retirements >= 2
    /\ Cardinality(DOMAIN trains) >= 2

RECURSIVE RoutePath(_, _, _)
\* the sections of a route from `station` on, at most n tracks
RoutePath(route, station, n) ==
    IF n = 0 \/ station \notin DOMAIN route.station_to THEN <<Station(station)>>
    ELSE <<Station(station), Track(route.station_to[station])>>
         \o RoutePath(route, subway_map.edges[route.station_to[station]].target, n - 1)

IsPrefix(p, q) == Len(p) <= Len(q) /\ SubSeq(q, 1, Len(p)) = p

\* the sections a train has occupied are the first sections of its route,
\* in order, and the last of them is the one it is in
FollowsRoute ==
    \A id \in DOMAIN trains :
        LET route == routes[trains[id].route] IN
        /\ IsPrefix(trains[id].visited,
                    RoutePath(route, route.start_station, Len(subway_map.edges)))
        /\ trains[id].visited[Len(trains[id].visited)] = trains[id].curr_section

\* a train that stays on a track does not move backwards
NoBackwards ==
    \A id \in DOMAIN trains \cap DOMAIN trains' :
        (trains[id].curr_section.ty = "Track"
           /\ trains'[id].curr_section = trains[id].curr_section)
        => trains'[id].pos >= trains[id].pos

\* C4: in run, a train's position on a track never decreases from one tick
\* to the next, and the sections it occupies are those of its route, from
\* the start station on, none skipped, repeated or out of order.
C4_Monotone == [](pc \in {"run", "done"} => FollowsRoute) /\ [][NoBackwards]_vars

\* a train held on a track behind an occupied station, another past its
\* second station
C4_Witness ==
    /\ pc = "run"
    /\ \E id \in DOMAIN trains : Len(trains[id].visited) >= 4
    /\ \E e \in DOMAIN tracks :
          /\ Len(tracks[e].trains) >= 1
          /\ stations[subway_map.edges[e].target].train # None
          /\ trains[tracks[e].trains[1]].pos + MIN_TRAIN_DISTANCE
                > tracks[e].length * UNIT

NonDecreasing(q) == \A i \in 1..(Len(q) - 1) : q[i] <= q[i + 1]

\* C5: for every station and route, the recorded arrival times are in
\* non-decreasing order, in run and in schedule_trains, also after
\* rollbacks.
C5_ArrivalsOrdered ==
    \A s \in DOMAIN stations :
        \A r \in DOMAIN stations[s].arrival_times :
            NonDecreasing(stations[s].arrival_times[r])

\* arrivals recorded again after a rollback
C5_Witness ==
    /\ pc = "some"
    /\ Len(new_conflicts) > 0
    /\ \E s \in DOMAIN stations :
          \E r \in DOMAIN stations[s].arrival_times :
              /\ Len(stations[s].arrival_times[r]) >= 2
              /\ s # routes[r].start_station

\* C6: every arrival time recorded by run is >= 0, and nothing is recorded
\* during the warm-up ticks.
C6_NoWarmupArrivals ==
    pc \in {"run", "done"} =>
        \A s \in DOMAIN stations :
            \A r \in DOMAIN stations[s].arrival_times :
                /\ \A i \in 1..Len(stations[s].arrival_times[r]) :
                      stations[s].arrival_times[r][i] >= 0
                /\ t <= 0 => stations[s].arrival_times[r] = <<>>

\* the end of a warm-up in which trains were dispatched and arrived
C6_Witness ==
    /\ pc = "run"
    /\ t = 0
    /\ retirements > 0
    /\ trains # <<>>
    /\ iterations > 0

\* C7: the train_positions returned by run, and by a schedule_trains that
\* succeeds after any number of rollbacks, hold one sample for each tick
\* 0 .. iterations-1, in this order, and no other sample.
C7_OneSamplePerTick ==
    pc \in {"done", "some"} =>
        /\ Len(train_positions) = f64_max(iterations, 0)
        /\ \A i \in 1..Len(train_positions) : train_positions[i].time = i - 1

C7_Witness ==
    /\ pc = "some"
    /\ Len(new_conflicts) >= 2
    /\ iterations > 0

\* the trains of the timeline that schedule_trains is in: those minted and
\* not rolled back
Timeline ==
    {id \in DOMAIN train_scheduled_at : id.count < curr_train_counts[id.route_idx]}

\* C8: whenever schedule_trains returns Some, consecutive trains of a route
\* were dispatched at least MIN_TRAIN_DISTANCE (2 ticks) apart, also across
\* epoch boundaries.
C8_MinGap ==
    pc = "some" =>
        \A id \in Timeline :
            id.count > 0 =>
                train_scheduled_at[id]
                  - train_scheduled_at[TrainId(id.route_idx, id.count - 1)]
                >= MIN_TRAIN_DISTANCE \div UNIT

\* a success after a rollback, with a route's trains on both sides of an
\* epoch boundary
C8_Witness ==
    /\ pc = "some"
    /\ Len(new_conflicts) > 0
    /\ \E id \in Timeline :
          /\ id.count > 0
          /\ train_scheduled_at[id] >= SCHEDULE_GRANULARITY
          /\ train_scheduled_at[TrainId(id.route_idx, id.count - 1)]
                < SCHEDULE_GRANULARITY

\* the trains of route r dispatched in epoch e of the timeline
DispatchedIn(r, e) ==
    {id \in Timeline :
        /\ id.route_idx = r
        /\ (e - 1) * SCHEDULE_GRANULARITY <= train_scheduled_at[id]
        /\ train_scheduled_at[id] < e * SCHEDULE_GRANULARITY}

\* C9: whenever schedule_trains returns Some for a table covering the
\* horizon, every route has exactly its quota of trains in every epoch.
C9_QuotaFilled ==
    (pc = "some" /\ iterations = SCHEDULE_GRANULARITY * Len(desired_frequencies)) =>
        \A r \in DOMAIN routes : \A e \in DOMAIN desired_frequencies :
            Cardinality(DispatchedIn(r, e)) = desired_frequencies[e][routes[r].name]

\* the axioms and the prior clauses schedule_trains starts from
InitialAssertions == Axioms(desired_frequencies, routes) \cup prior_conflicts

\* the routes that came to the solver in the tick just completed: the ones
\* dispatched in it, and the ones left with a free start station and an
\* open quota
Attempted ==
    {id \in DOMAIN routes :
        \/ /\ curr_train_counts[id] > 0
           /\ train_scheduled_at[TrainId(id, curr_train_counts[id] - 1)] = t - 1
        \/ /\ stations[routes[id].start_station].train = None
           /\ frequencies[Epoch(t - 1)][routes[id].name] # 0}

\* the train a route came to the solver with in the tick just completed
AttemptedTrain(id) ==
    IF /\ curr_train_counts[id] > 0
       /\ train_scheduled_at[TrainId(id, curr_train_counts[id] - 1)] = t - 1
    THEN TrainId(id, curr_train_counts[id] - 1)
    ELSE TrainId(id, curr_train_counts[id])

----------------------------------------------------------------------------
\* the increments that curr_schedule holds over the initial schedule
Increments ==
    SumOver([n \in DOMAIN curr_schedule |->
                SeqSum([e \in DOMAIN curr_schedule[n] |-> curr_schedule[n][e] - 1])],
            DOMAIN curr_schedule)

\* C11: in optimize the costs at which increments are accepted are
\* strictly decreasing, from below f64::MAX; the current cost is the cost
\* accepted last, and the returned schedule holds exactly the accepted
\* increments.
C11_AcceptedDecreasing ==
    /\ \A i \in 1..(Len(accepted) - 1) : accepted[i + 1] < accepted[i]
    /\ accepted # <<>> => accepted[1] < F64_MAX
    /\ curr_cost = IF accepted = <<>> THEN F64_MAX ELSE accepted[Len(accepted)]
    /\ caller = "optimize" => Increments = Len(accepted)

\* increments were accepted and an increment of no lower cost was rejected
C11_Witness ==
    /\ caller = "optimize"
    /\ Len(accepted) >= 3
    /\ blacklisted_fragments # {}
    /\ pc = "returned"

\* C12: when schedule_trains returns None to optimize, the increment is
\* rejected: the frequency of the fragment goes back to its previous
\* value, the fragment is blacklisted, and the schedule, the current cost
\* and the current results stay as they are.
C12_NoneRejected ==
    [][(caller = "optimize" /\ pc = "none") =>
          /\ desired_frequencies' = Bump(desired_frequencies, best_fragment, -1)
          /\ blacklisted_fragments' = blacklisted_fragments \cup {best_fragment}
          /\ UNCHANGED << curr_schedule, curr_cost, curr_simulation_results,
                          accepted >>]_vars

\* a fragment was blacklisted when one more train could not fit its epoch
\* (the run returned None), after accepted increments had left results
C12_Witness ==
    /\ caller = "optimize"
    /\ pc = "optimize"
    /\ best_fragment \in blacklisted_fragments
    /\ desired_frequencies[best_fragment[1]][best_fragment[2]] + 1 = TooMany
    /\ curr_schedule[best_fragment[2]][best_fragment[1]] + 1 = TooMany
    /\ curr_simulation_results # NoResults

\* C13: the results that optimize holds, and returns, are those of the run
\* of the increment accepted last (none before the first acceptance).
C13_ResultsOfAccepted ==
    (caller = "optimize" /\ pc \in {"optimize", "returned"})
        => curr_simulation_results = accepted_results

----------------------------------------------------------------------------
\* the sum of the weights of the edges of a path
ChainCost(chain) == SeqSum([i \in DOMAIN chain |-> chain[i].weight])

\* the least costs, with every edge enabled, from a virtual source joined
\* to the copies of `start`
LeastCosts(start) ==
    LET sm == Generate(subway_map, routes)
        source == Len(sm.map.nodes) + 1
        start_nodes == sm.old_to_new_nodes[start]
        g == [nodes |-> Append(sm.map.nodes, SearchNode("", 0)),
              edges |-> sm.map.edges \o [i \in DOMAIN start_nodes |->
                            SearchEdge(source, start_nodes[i], "Walk", 0)]]
    IN Distances(g, (source :> 0), Len(g.nodes))

\* the copies of `end` that a path from `start` reaches
Reached(start, end) ==
    LET served == DOMAIN Generate(subway_map, routes).old_to_new_nodes IN
    IF start \in served /\ end \in served
    THEN Range(Generate(subway_map, routes).old_to_new_nodes[end])
            \cap DOMAIN LeastCosts(start)
    ELSE {}

\* C14: the first path of a non-empty list returned by shortest_paths for
\* k >= 1 costs as little as the cheapest path, all edges enabled, from the
\* virtual source to a copy of the end station.
C14_FirstIsCheapest ==
    \A i \in DOMAIN answers :
        (answers[i].kind = "ok" /\ answers[i].k >= 1 /\ answers[i].paths # <<>>)
            => ChainCost(answers[i].chains[1])
                  = SetMin({LeastCosts(answers[i].start)[v] :
                               v \in Reached(answers[i].start, answers[i].end)})

\* C20: for stations that no route path joins, among them stations that no
\* route serves, shortest_paths returns the empty list and does not fail.
C20_NoPathEmpty ==
    \A i \in DOMAIN answers :
        (answers[i].k >= 1 /\ Reached(answers[i].start, answers[i].end) = {})
            => answers[i].kind = "ok" /\ answers[i].paths = <<>>

----------------------------------------------------------------------------
(* Two executions of run on the same inputs: the HashMap `routes` of one   *)
(* iterates in the order route_order, that of the other in the opposite    *)
(* order.                                                                  *)

Reversed(ord) == [i \in DOMAIN ord |-> ord[Len(ord) + 1 - i]]

\* the networks of the paired runs
TwinNetworks ==
    {NetFork(a, b) : a \in 1..MaxLen, b \in 1..MaxLen}
    \cup {NetMerge(a, b) : a \in 1..MaxLen, b \in 1..MaxLen}
    \cup {NetSingle(a) : a \in 1..MaxLen}

InitTwin ==
    /\ \E net \in TwinNetworks : Construct(net)
    /\ iterations = MaxIter
    /\ frequency \in 1..MaxFreq
    /\ t = -WARMUP
    /\ pc = "run"
    /\ NoSchedule
    /\ NoPlanner
    /\ NoOptimize
    /\ twin = [sim |-> SimState, train_positions |-> train_positions,
               train_to_route |-> train_to_route]
    /\ carry = <<>>

\* both executions make one iteration of the loop
TwinTick ==
    /\ RunLoop
    /\ twin' = RunStep(twin, t, Reversed(route_order))
    /\ UNCHANGED carry

NextTwin == TwinTick \/ RunReturn

SpecTwin == InitTwin /\ [][NextTwin]_vars

\* the SimulationResults that the second execution returns (lines 421-436)
TwinResults ==
    [train_positions |-> twin.train_positions,
     train_to_route |-> twin.train_to_route,
     station_statistics |->
         [s \in DOMAIN twin.sim.stations |-> twin.sim.stations[s].arrival_times],
     none |-> FALSE]

\* C15: two executions of run on the same graph, routes and frequency
\* return the same results, whatever the order in which each of them
\* iterates the routes during dispatch.
C15_OrderIndependent ==
    pc = "done" => TwinResults = SimulationResults

----------------------------------------------------------------------------
(* Construction from routes that name stations outside the graph.  Route   *)
(* is a plain struct of NodeIndex values, so a caller of Simulator::new    *)
(* can pass a start station or a station_to key that is no node.           *)

\* A -> B with the route [A,B], and a second route that starts at the
\* station 3, which is not a node
NetStray(a, off) ==
    [map |-> [nodes |-> 1..2, edges |-> <<Edge(1, 2, a, "Track")>>],
     routes |-> <<Route("R1", 1, (1 :> 1), 0),
                  Route("R2", 3, (3 :> 1), off)>>]

\* A -> B with the route [A,B] whose station_to also has the key 3, which
\* is not a node
NetStrayKey(a) ==
    [map |-> [nodes |-> 1..2, edges |-> <<Edge(1, 2, a, "Track")>>],
     routes |-> <<Route("R1", 1, (1 :> 1) @@ (3 :> 1), 0)>>]

NewNetworks ==
    {NetStray(a, off) : a \in 1..MaxLen, off \in 0..1}
    \cup {NetStrayKey(a) : a \in 1..MaxLen}
    \cup {NetSingle(a) : a \in 1..MaxLen}

\* Simulator::new returns Self: every input yields a simulator
InitNew ==
    /\ \E net \in NewNetworks : Construct(net)
    /\ iterations = MaxIter
    /\ frequency \in 1..MaxFreq
    /\ t = -WARMUP
    /\ pc = "run"
    /\ NoSchedule
    /\ NoPlanner
    /\ NoOptimize
    /\ twin = <<>>
    /\ carry = <<>>

\* the unwrap of line 371 panics and run is abandoned
RunPanic ==
    /\ pc = "run"
    /\ t < iterations
    /\ StartStationMissing(t)
    /\ pc' = "panic"
    /\ UNCHANGED << twin, carry >>
    /\ UNCHANGED << stations, tracks, trains, curr_train_counts, t,
                    train_positions, train_to_route, removed_log, retirements >>
    /\ InputsUnchanged
    /\ SchedUnchanged

NextNew == RunTick \/ RunReturn \/ RunPanic

SpecNew == InitNew /\ [][NextNew]_vars

\* some route names a start station or a station_to key that is not a node
RoutesOutsideGraph ==
    \E id \in RouteIds :
        \/ routes[id].start_station \notin subway_map.nodes
        \/ \E s \in DOMAIN routes[id].station_to : s \notin subway_map.nodes

\* C16: Simulator::new fails and builds no simulator when a route's start
\* station or a station keyed in its station_to map is not a node of the
\* graph: no simulator built from such routes ever exists, so the program
\* is never running, done or panicking on one.
C16_BadRoutesRejected ==
    RoutesOutsideGraph => pc = "new_failed"

----------------------------------------------------------------------------
(* Dispatch in run *)

\* the trains of route r that the step creates
Created(r) ==
    {id \in DOMAIN trains' \ DOMAIN trains : id.route_idx = r}

\* some route visited before position k of route_order is due in tick t
\* and has the start station s
EarlierDueAt(k, s) ==
    \E j \in 1..(k - 1) :
        /\ (t - routes[route_order[j]].offset) % frequency = 0
        /\ routes[route_order[j]].start_station = s

\* what a tick of run does for the route at position k of route_order,
\* where `free` says whether its start station counts as unoccupied
DispatchRule(k, free) ==
    LET r == route_order[k]
        start == routes[r].start_station
        id == TrainId(r, curr_train_counts[r])
    IN
    /\ Created(r) # {} <=> ((t - routes[r].offset) % frequency = 0 /\ free)
    /\ Created(r) # {} =>
          /\ Created(r) = {id}
          /\ trains'[id].curr_section = Station(start)
          /\ trains'[id].pos = 0
          /\ curr_train_counts'[r] = curr_train_counts[r] + 1
    /\ Created(r) = {} => curr_train_counts'[r] = curr_train_counts[r]
    /\ {i.count : i \in {x \in DOMAIN train_to_route' : x.route_idx = r}}
          = 0..(curr_train_counts'[r] - 1)

\* C17 (as stated): at the end of tick t a train is created on route r iff
\* (t - offset_r) is divisible by frequency and r's start station is
\* unoccupied after that tick's movement; it starts at the start station at
\* position 0, and the counts of a route's trains are 0, 1, 2, ... without
\* gap or repeat.
C17_DispatchAfterMovement ==
    [][(pc = "run" /\ t < iterations) =>
         LET M == Movement(FreshTick(SimState), 1, t) IN
         \A k \in 1..Len(route_order) :
            DispatchRule(k,
                M.stations[routes[route_order[k]].start_station].train = None)]_vars

\* C17 (amended): at the end of tick t a train is created on route r iff
\* (t - offset_r) is divisible by frequency and r's start station is
\* unoccupied when the dispatch loop reaches r, that is, unoccupied after
\* that tick's movement and not taken by a route with the same start
\* station that was due and visited earlier in the same tick; it starts at
\* the start station at position 0, and the counts of a route's trains are
\* 0, 1, 2, ... without gap or repeat.
C17_DispatchInTurn ==
    [][(pc = "run" /\ t < iterations) =>
         LET M == Movement(FreshTick(SimState), 1, t) IN
         \A k \in 1..Len(route_order) :
            LET start == routes[route_order[k]].start_station IN
            DispatchRule(k,
                M.stations[start].train = None /\ ~EarlierDueAt(k, start))]_vars

\* two routes start at the same station with the same offset; one has had
\* several trains, the other was passed over every time
C17_Witness ==
    /\ pc = "run"
    /\ \E r, q \in RouteIds :
          /\ r # q
          /\ routes[r].start_station = routes[q].start_station
          /\ routes[r].offset = routes[q].offset
          /\ curr_train_counts[r] >= 2
          /\ curr_train_counts[q] = 0
    /\ \E id \in DOMAIN trains : id.count >= 1 /\ trains[id].pos > 0

----------------------------------------------------------------------------
(* The line A -> B -> C with both tracks of length 4 and the route         *)
(* [A,B,C], run as run_simulation does (main.rs line 253: 60 iterations)   *)
(* with frequency 3.                                                        *)

InitLine ==
    /\ Construct(NetLine(4, 4))
    /\ iterations = 60
    /\ frequency = 3
    /\ t = -WARMUP
    /\ pc = "run"
    /\ NoSchedule
    /\ NoPlanner
    /\ NoOptimize
    /\ twin = <<>>
    /\ carry = <<>>

SpecLine == InitLine /\ [][Next]_vars

\* the train that tick 0 dispatches: the warm-up ticks -120, -117, ..., -3
\* have dispatched the counts 0 .. 39
TickZeroTrain == TrainId(1, WARMUP \div 3)

\* the step moves the train `id` into the station s
Enters(id, s) ==
    /\ id \in DOMAIN trains
    /\ Station(s) \notin Range(trains[id].visited)
    /\ \/ id \in DOMAIN trains' /\ Station(s) \in Range(trains'[id].visited)
       \/ \E x \in removed_log' : x.id = id /\ x.station = s

\* the time pushed last to the arrival times of route 1 at the station s
LastArrival(s) ==
    LET a == stations'[s].arrival_times[1] IN a[Len(a)]

\* the step dispatches TickZeroTrain in tick 0 and, when it moves that
\* train into B or C, records the arrival at the times at_B and at_C (in
\* half units)
LineArrivals(at_B, at_C) ==
    /\ (pc = "run" /\ t = 0) => TickZeroTrain \in DOMAIN trains' \ DOMAIN trains
    /\ (pc = "run" /\ t # 0) => TickZeroTrain \notin DOMAIN trains' \ DOMAIN trains
    /\ (pc = "run" /\ t < iterations /\ Enters(TickZeroTrain, 2))
          => LastArrival(2) = at_B
    /\ (pc = "run" /\ t < iterations /\ Enters(TickZeroTrain, 3))
          => LastArrival(3) = at_C

\* C18: on A -> B -> C with both tracks of length 4, the route
\* [A,B,C] with offset 0 and frequency 3, the train dispatched at tick 0
\* has its arrival at B recorded as 4.5 and its arrival at C as 9.0 (9 and
\* 18 half units).
C18_ArrivalsAsStated == [][LineArrivals(9, 18)]_vars

----------------------------------------------------------------------------
(* The single track A -> B of length 1 with the route [A,B], run as        *)
(* run_simulation does (main.rs line 253: 60 iterations) with frequency 1. *)

InitBack ==
    /\ Construct(NetSingle(1))
    /\ iterations = 60
    /\ frequency = 1
    /\ t = -WARMUP
    /\ pc = "run"
    /\ NoSchedule
    /\ NoPlanner
    /\ NoOptimize
    /\ twin = <<>>
    /\ carry = <<>>

SpecBack == InitBack /\ [][Next]_vars

\* the ticks run so far, each of them due with frequency 1
TicksRun == t + WARMUP

\* B holds a train between two ticks, or some due dispatch found A occupied
BackPressure ==
    \/ stations[2].train # None
    \/ curr_train_counts[1] < TicksRun

\* a sample of the run shows a train standing in B
SampledInB ==
    \E i \in 1..Len(train_positions) :
        \E x \in train_positions[i].trains : x.curr_section = Station(2)

\* C19 (as stated): for the route [A,B] on a track of length 1, run with
\* frequency 1 reaches a state in which B is still occupied by an earlier
\* train and the next train is held back, trains accumulating at A so that
\* a due dispatch finds A occupied.  A dispatch that was held back leaves
\* the train count behind the number of ticks for good, so a run that
\* reached such a state ends with fewer trains than ticks, or with a
\* sample of a train standing in B.
C19_ReachesBackPressure ==
    pc = "done" => (curr_train_counts[1] < TicksRun \/ SampledInB)

\* C19 (amended): for the route [A,B] on a track of length 1, run with
\* frequency 1 never holds a train back: after every tick B is unoccupied
\* (a train that enters B dwells and is removed within the same tick),
\* at most one train is on the track, every tick has dispatched a train
\* (A was free each time), and all but the last two trains have reached B
\* and been removed.
C19_NoBackPressure ==
    pc \in {"run", "done"} =>
        /\ ~BackPressure
        /\ Len(tracks[1].trains) <= 1
        /\ curr_train_counts[1] = TicksRun
        /\ TicksRun >= 2 => retirements = TicksRun - 2
        /\ TicksRun >= 1 =>
              /\ stations[1].train = TrainId(1, TicksRun - 1)
              /\ trains[stations[1].train].pos = 0

\* the run is over: 180 trains were dispatched, 178 of them reached B
C19_Witness ==
    /\ pc = "done"
    /\ routes = NetSingle(1).routes
    /\ frequency = 1
    /\ curr_train_counts[1] = WARMUP + 60
    /\ retirements = WARMUP + 58
    /\ Len(stations[2].arrival_times[1]) >= 58

----------------------------------------------------------------------------
(* calculate_costs as a program: optimize hands it the frequency table,    *)
(* the trips and the candidate paths that its caller supplied.             *)

\* lines 1305-1306: the index shortest_paths[&(start, end)] and the
\* assertion that the candidate list is not empty
CostsPanic(td, sp) ==
    \E time \in DOMAIN td : \E i \in DOMAIN td[time] :
        LET pair == <<td[time][i].start, td[time][i].end>> IN
        pair \notin DOMAIN sp \/ sp[pair] = <<>>

\* the frequency tables: f1 trains per epoch in the first three epochs, f2
\* in the others
CostTables(names) ==
    {[e \in 1..(SCHEDULE_PERIOD \div SCHEDULE_GRANULARITY) |->
         [n \in names |-> IF e <= 3 THEN f1 ELSE f2]] : f1 \in 0..2, f2 \in 0..2}

\* trips from the first station to the station `end`, early or late in the
\* period, alone or followed by a trip from 2 to `end`
CostTrips(end) ==
    LET trip(a, n) == [start |-> a, end |-> end, count |-> n] IN
    {(time :> <<trip(1, n)>>) : time \in {0, LateTrip}, n \in 1..MaxCount}
    \cup {(LateTrip :> <<trip(1, 1), trip(2, MaxCount)>>)}

\* the candidate lists: those of the planner with k paths, or the list of
\* the first pair emptied
CostPaths(sm, td, k) ==
    LET pairs == UNION {{<<td[time][i].start, td[time][i].end>> : i \in DOMAIN td[time]}
                        : time \in DOMAIN td}
        found == [pair \in pairs |-> ShortestPaths(pair[1], pair[2], sm, k, "first").paths]
        first == CHOOSE pair \in pairs : pair[1] = 1
    IN {found, [found EXCEPT ![first] = <<>>]}

\* A -> B on route R1 and B -> C on route R2: a change of trains at B
NetRelay(a, b) ==
    [map |-> [nodes |-> 1..3,
              edges |-> <<Edge(1, 2, a, "Track"), Edge(2, 3, b, "Track")>>],
     routes |-> <<Route("R1", 1, (1 :> 1), 0),
                  Route("R2", 2, (2 :> 2), 0)>>]

\* a trip in the last epoch of the period
LastTrip == SCHEDULE_PERIOD - 5

\* trips from the first station to `end` that start in the last epoch
EndTrips(end) ==
    {(LastTrip :> <<[start |-> 1, end |-> end, count |-> n]>>) : n \in 1..MaxCount}

InitCost ==
    /\ \E net \in {NetLine(1, 2), NetDiamond(1, 2), NetDiamond(2, 1), NetRelay(1, 1)} :
         /\ Construct(net)
         /\ trip_data \in CostTrips(3) \cup EndTrips(3)
    /\ route_order = [i \in DOMAIN routes |-> i]
    /\ frequency = 0
    /\ iterations = SCHEDULE_PERIOD
    /\ caller = "costs"
    /\ search_map = Generate(subway_map, routes)
    /\ dijkstra_tie = "first"
    /\ answers = <<>>
    /\ \E k \in 1..2 : shortest_paths \in CostPaths(search_map, trip_data, k)
    /\ desired_frequencies \in CostTables({routes[r].name : r \in DOMAIN routes})
    /\ blacklisted_fragments = {}
    /\ curr_cost = F64_MAX
    /\ curr_schedule = <<>>
    /\ curr_simulation_results = NoResults
    /\ prior_conflicts = {}
    /\ best_fragment = NoFragment
    /\ lowest_cost = F64_INFINITY
    /\ accepted = <<>>
    /\ accepted_results = NoResults
    /\ twin = <<>>
    /\ carry = <<>>
    /\ frequencies = <<>>
    /\ z3_solver = <<>>
    /\ train_scheduled_at = <<>>
    /\ states = <<>>
    /\ new_conflicts = <<>>
    /\ last_conflict = {}
    /\ t = 0
    /\ pc = "costs"

CostUnchanged ==
    UNCHANGED << subway_map, routes, traversal_order, route_order, iterations,
                 frequency, stations, tracks, trains, curr_train_counts, t,
                 train_positions, train_to_route, removed_log, retirements,
                 desired_frequencies, frequencies, prior_conflicts, z3_solver,
                 train_scheduled_at, states, new_conflicts, last_conflict,
                 search_map, dijkstra_tie, answers, caller, trip_data,
                 shortest_paths, blacklisted_fragments, curr_schedule,
                 curr_simulation_results, best_fragment, accepted,
                 accepted_results, twin, carry >>

\* calculate_costs returns the total cost
CostsReturn ==
    /\ pc = "costs"
    /\ ~CostsPanic(trip_data, shortest_paths)
    /\ lowest_cost' =
          calculate_costs(search_map, desired_frequencies, trip_data, shortest_paths)
    /\ curr_cost' = curr_cost
    /\ pc' = "costed"
    /\ CostUnchanged

\* calculate_costs panics at line 1305 or 1306
CostsFail ==
    /\ pc = "costs"
    /\ CostsPanic(trip_data, shortest_paths)
    /\ pc' = "panic"
    /\ UNCHANGED << lowest_cost, curr_cost >>
    /\ CostUnchanged

NextCost == CostsReturn \/ CostsFail

SpecCost == InitCost /\ [][NextCost]_vars

\* the cost of the candidate `path` for a trip at `time`, F64_INFINITY when
\* it meets a segment that no train serves
CandidateCost(path, time) ==
    SegmentLoop(search_map, desired_frequencies, path, 1, time * CostUnit, 0)

\* what the trip i at `time` is to contribute: 0 without a feasible
\* candidate, else the cost of its cheapest candidate times its count
Contribution(time, i) ==
    LET trip == trip_data[time][i]
        pair == <<trip.start, trip.end>>
        paths == IF pair \in DOMAIN shortest_paths THEN shortest_paths[pair] ELSE <<>>
        feasible == {p \in DOMAIN paths : CandidateCost(paths[p], time) < F64_INFINITY}
    IN IF feasible = {} THEN 0
       ELSE trip.count * SetMin({CandidateCost(paths[p], time) : p \in feasible})

\* C21: in calculate_costs a trip without a feasible candidate (an empty
\* candidate list, or every candidate meeting a segment of total boarding
\* frequency 0) contributes exactly 0 and the evaluation does not fail;
\* every other trip contributes its minimum candidate cost times its count.
C21_UnservedCostsZero ==
    caller = "costs" =>
        /\ pc # "panic"
        /\ pc = "costed" =>
              lowest_cost =
                 SumOver([time \in DOMAIN trip_data |->
                            SeqSum([i \in DOMAIN trip_data[time] |-> Contribution(time, i)])],
                         DOMAIN trip_data)

----------------------------------------------------------------------------
(* The traversal order of Simulator::new on graphs where the search has    *)
(* to wait for a station, and on graphs with tracks that no route uses.    *)

\* A -> B -> C and A -> C, routes [A,B,C] and [A,C]: A feeds two tracks
\* whose ways to the terminal C differ in length
NetShort(a, b) ==
    [map |-> [nodes |-> 1..3,
              edges |-> <<Edge(1, 2, a, "Track"), Edge(2, 3, a, "Track"),
                          Edge(1, 3, b, "Track")>>],
     routes |-> <<Route("R1", 1, (1 :> 1) @@ (2 :> 2), 0),
                  Route("R2", 1, (1 :> 3), 1)>>]

OrderNetworks ==
    {NetShort(a, b) : a \in 1..MaxLen, b \in 1..MaxLen}
    \cup {NetSpur(a) : a \in 1..MaxLen}
    \cup {NetJoin(a, b) : a \in 1..MaxLen, b \in 1..MaxLen}
    \cup {NetCross(a, b) : a \in 1..MaxLen, b \in 1..MaxLen}
    \cup {NetMid(a, b) : a \in 1..MaxLen, b \in 1..MaxLen}

InitOrder ==
    /\ \E net \in OrderNetworks : Construct(net)
    /\ iterations = MaxIter
    /\ frequency \in 2..3
    /\ t = -WARMUP
    /\ pc = "run"
    /\ NoSchedule
    /\ NoPlanner
    /\ NoOptimize
    /\ twin = <<>>
    /\ carry = <<>>

SpecOrder == InitOrder /\ [][Next]_vars

\* the edges that some route uses
RouteEdges ==
    {e \in DOMAIN subway_map.edges :
        \E r \in RouteIds : \E s \in DOMAIN routes[r].station_to :
            routes[r].station_to[s] = e}

\* the section x stands in the traversal order before position i
Before(x, i) == \E j \in 1..(i - 1) : traversal_order[j] = x

\* C22: in the traversal order built by Simulator::new every section
\* appears at most once, every track appears after its destination
\* station, and every station appears after all of its outgoing tracks
\* that belong to some route.
C22_OrderRespectsFlow ==
    \A i \in 1..Len(traversal_order) :
        LET x == traversal_order[i] IN
        /\ ~Before(x, i)
        /\ x.ty = "Track" => Before(Station(subway_map.edges[x.id].target), i)
        /\ x.ty = "Station" =>
              \A e \in RouteEdges :
                  subway_map.edges[e].source = x.id => Before(Track(e), i)

\* the run is over on a graph whose order holds a station that feeds two
\* route tracks, both of them standing ahead of it
C22_Witness ==
    /\ Len(traversal_order) = 6
    /\ \E i \in 1..Len(traversal_order) :
          /\ traversal_order[i].ty = "Station"
          /\ Cardinality({e \in RouteEdges :
                            subway_map.edges[e].source = traversal_order[i].id}) = 2
          /\ \E e \in RouteEdges :
                /\ subway_map.edges[e].source = traversal_order[i].id
                /\ \E j \in 1..(i - 1) : \E k \in (j + 1)..(i - 1) :
                      /\ traversal_order[j].ty = "Track"
                      /\ subway_map.edges[traversal_order[j].id].source = traversal_order[i].id
                      /\ traversal_order[k] = Track(e)
    /\ pc = "done"

\* the stations without an outgoing Track edge that a route uses
RouteTerminals ==
    {n \in subway_map.nodes :
        \A e \in RouteEdges :
            ~(subway_map.edges[e].source = n /\ subway_map.edges[e].ty = "Track")}

RECURSIVE RouteReach(_, _)
\* the stations reachable from the set S along route edges, in at most n
\* further steps
RouteReach(S, n) ==
    IF n = 0 THEN S
    ELSE RouteReach(S \cup {subway_map.edges[e].target :
                               e \in {x \in RouteEdges : subway_map.edges[x].source \in S}},
                    n - 1)

\* the tracks and the stations of the route r
TracksOf(r) == {routes[r].station_to[s] : s \in DOMAIN routes[r].station_to}

StationsOf(r) ==
    {routes[r].start_station}
    \cup {subway_map.edges[e].source : e \in TracksOf(r)}
    \cup {subway_map.edges[e].target : e \in TracksOf(r)}

\* C23: the search of Simulator::new starts from every station that has no
\* outgoing Track edge used by a route (even if it has outgoing tracks that
\* no route uses), so each such station is in the traversal order, and the
\* order contains every station and every track of every route from which
\* such a terminal is reachable along routes.
C23_TerminalsByRoutes ==
    /\ \A n \in RouteTerminals : Station(n) \in Range(traversal_order)
    /\ \A r \in RouteIds :
          RouteReach(StationsOf(r), Cardinality(subway_map.nodes)) \cap RouteTerminals # {}
             => /\ \A n \in StationsOf(r) : Station(n) \in Range(traversal_order)
                /\ \A e \in TracksOf(r) : Track(e) \in Range(traversal_order)

----------------------------------------------------------------------------
(* Rollback in schedule_trains *)

\* the simulator fields and the remaining-frequency table, as snapshots
\* hold them
Snapshot ==
    [stations |-> stations, tracks |-> tracks, trains |-> trains,
     curr_train_counts |-> curr_train_counts, frequencies |-> frequencies]

SnapshotOf(st) ==
    [stations |-> st.sim.stations, tracks |-> st.sim.tracks,
     trains |-> st.sim.trains, curr_train_counts |-> st.sim.curr_train_counts,
     frequencies |-> st.frequencies]

\* the dispatch equalities among the assertions of a solver
Equalities(solver) == {c \in Asserted(solver) : c.k = "eq"}

\* the step is a loop iteration of schedule_trains that meets a conflict
ConflictStep ==
    /\ pc = "sched"
    /\ t < iterations
    /\ AfterMovement.kind = "conflict"
    /\ new_conflicts' # new_conflicts

\* C24: the snapshots are the history of the run (snapshot j is the state
\* at the start of tick j: every completed tick t appends the state it
\* started from, and nothing else changes a snapshot).  When a conflict is
\* detected between trains dispatched at ticks a <= b, the run resumes at
\* tick a with the simulator state and the remaining-frequency table of
\* the start of tick a, train_positions keeps exactly the samples of the
\* ticks < a, and the solver keeps the dispatch equalities committed at
\* ticks < a and none committed at ticks >= a.
C24_Rollback ==
    [][/\ pc = "sched" => Len(states) = t
       /\ (pc = "sched" /\ pc' = "sched" /\ t' = t + 1 /\ new_conflicts' = new_conflicts)
             => /\ Len(states') = t + 1
                /\ SubSeq(states', 1, t) = states
                /\ SnapshotOf(states'[t + 1]) = Snapshot
       /\ ConflictStep =>
             LET x == train_scheduled_at[AfterMovement.curr]
                 y == train_scheduled_at[AfterMovement.other]
                 a == IF x <= y THEN x ELSE y
                 at_a == IF a = t THEN Snapshot ELSE SnapshotOf(states[a + 1])
             IN /\ a <= t
                /\ t' = a
                /\ pc' = "sched"
                /\ Snapshot' = at_a
                /\ states' = SubSeq(states, 1, a)
                /\ train_positions' =
                      SelectSeq(train_positions, LAMBDA p : p.time < a)
                /\ \A i \in 1..Len(train_positions') : train_positions'[i].time = i - 1
                /\ Equalities(z3_solver') = {c \in Equalities(z3_solver) : c.ta < a}
                /\ \A id \in DOMAIN train_scheduled_at :
                      (id \in DOMAIN trains /\ train_scheduled_at[id] < a)
                         => Eq(id, train_scheduled_at[id]) \in Equalities(z3_solver')]_vars

\* a conflict has sent the run back over several ticks to a tick after
\* the first, undoing a dispatch that had been committed
C24_Witness ==
    /\ pc = "sched"
    /\ \E c \in last_conflict :
          /\ c.back_to = t
          /\ c.back_to >= 1
          /\ c.at >= c.back_to + 2
          /\ train_scheduled_at[c.curr] # train_scheduled_at[c.other]
    /\ Len(train_positions) = t
    /\ \E id \in DOMAIN train_scheduled_at : id \notin DOMAIN trains

\* the train that keeps `curr` from advancing in the state S: its leader on
\* the track if the leader is closer than a tick's travel plus the minimum
\* distance, else the train in the downstream station (None if there is
\* none)
Blocker(S, curr) ==
    LET track == S.trains[curr].curr_section.id
        q == S.tracks[track].trains
        idx == CHOOSE i \in 1..Len(q) : q[i] = curr
    IN IF /\ idx > 1
          /\ S.trains[q[idx - 1]].pos - MIN_TRAIN_DISTANCE
                < S.trains[curr].pos + TIME_STEP
       THEN q[idx - 1]
       ELSE S.stations[subway_map.edges[track].target].train

\* C25: whenever schedule_trains declares a conflict for a trailing train
\* on a track, the other train of the learned clause is the train that
\* blocks it (its leader on the track if that limits it, else the train in
\* the downstream station), and such a train always exists: the lookup of
\* lines 551-555 never fails.
C25_ClauseNamesBlocker ==
    (pc = "sched" /\ t < iterations) =>
        /\ AfterMovement.kind # "panic"
        /\ AfterMovement.kind = "conflict" =>
              /\ Blocker(AfterMovement.sim, AfterMovement.curr) # None
              /\ AfterMovement.other = Blocker(AfterMovement.sim, AfterMovement.curr)

----------------------------------------------------------------------------
(* The timeline of schedule_trains *)

\* the trains that a sample shows on the track e
SampledOn(sample, e) == {x \in sample.trains : x.curr_section = Track(e)}

\* C26: in every tick sample of a result returned by schedule_trains any
\* two trains on the same track are at least MIN_TRAIN_DISTANCE apart, and
\* no tick that ran to its end slowed a train on a track: a train that
\* starts the tick on a track advances min(TIME_STEP, remaining length),
\* staying on the track short of its end or leaving it at its end.
C26_NeverSlowed ==
    [][/\ (pc = "sched" /\ t >= iterations) =>
             \A i \in 1..Len(train_positions) : \A e \in DOMAIN tracks :
                 \A x, y \in SampledOn(train_positions[i], e) :
                     x.id # y.id =>
                         \/ x.pos - y.pos >= MIN_TRAIN_DISTANCE
                         \/ y.pos - x.pos >= MIN_TRAIN_DISTANCE
       /\ (pc = "sched" /\ pc' = "sched" /\ t' = t + 1) =>
             \A id \in DOMAIN trains :
                 trains[id].curr_section.ty = "Track" =>
                     LET e == trains[id].curr_section.id
                         length == tracks[e].length * UNIT
                         pos == trains[id].pos
                     IN IF id \in DOMAIN trains' /\ trains'[id].curr_section = Track(e)
                        THEN /\ trains'[id].pos = pos + TIME_STEP
                             /\ trains'[id].pos < length
                        ELSE pos + TIME_STEP >= length]_vars

\* Some is returned after a conflict, with a sample of two trains on one
\* track and a train that has left a track
C26_Witness ==
    /\ pc = "some"
    /\ Len(new_conflicts) > 0
    /\ \E i \in 1..Len(train_positions) : \E e \in DOMAIN tracks :
          Cardinality(SampledOn(train_positions[i], e)) >= 2
    /\ retirements > 0

----------------------------------------------------------------------------
(* Dispatch in schedule_trains *)

\* the routes for which the step commits a dispatch
Committed == {r \in RouteIds : curr_train_counts'[r] # curr_train_counts[r]}

\* C27: in a tick of schedule_trains that runs to its end, the dispatch of
\* the train (r, count) is committed only if the constraints with
\* x_{r,count} = t are satisfiable; a commit asserts that equality, takes
\* exactly 1 from the epoch's remaining count of r, advances r's train
\* count by 1 and creates the train at the start station; a route that is
\* not committed (deferred, or not attempted) leaves its remaining count,
\* its train count and the solver as they were and creates no train, and
\* its start station is as the movement left it unless another route
\* took it.
C27_CommitOrDefer ==
    [][(pc = "sched" /\ pc' = "sched" /\ t' = t + 1) =>
         /\ Committed # {} => Sat(Asserted(z3_solver'))
         /\ Asserted(z3_solver') =
               Asserted(z3_solver)
               \cup {Eq(TrainId(r, curr_train_counts[r]), t) : r \in Committed}
         /\ SubSeq(z3_solver', 1, Len(z3_solver)) = z3_solver
         /\ \A r \in RouteIds :
               LET name == routes[r].name
                   start == routes[r].start_station
                   id == TrainId(r, curr_train_counts[r])
               IN IF r \in Committed
                  THEN /\ curr_train_counts'[r] = curr_train_counts[r] + 1
                       /\ frequencies'[Epoch(t)][name] = frequencies[Epoch(t)][name] - 1
                       /\ frequencies[Epoch(t)][name] >= 1
                       /\ Sat(Asserted(z3_solver) \cup {Eq(id, t)})
                       /\ id \notin DOMAIN trains
                       /\ id \in DOMAIN trains'
                       /\ stations'[start].train = id
                       /\ train_scheduled_at'[id] = t
                  ELSE /\ frequencies'[Epoch(t)][name] = frequencies[Epoch(t)][name]
                       /\ \A x \in DOMAIN trains' \ DOMAIN trains : x.route_idx # r
                       /\ (\A q \in Committed : routes[q].start_station # start)
                             => stations'[start] = AfterMovement.sim.stations[start]
         /\ \A e \in DOMAIN frequencies : e # Epoch(t) => frequencies'[e] = frequencies[e]]_vars

\* a tick has just run to its end in which one route was dispatched and
\* another, its start station free and its quota open, was deferred
C27_Witness ==
    /\ pc = "sched"
    /\ t > 0
    /\ last_conflict = {}
    /\ \E r, q \in RouteIds :
          /\ train_scheduled_at # <<>>
          /\ TrainId(r, curr_train_counts[r] - 1) \in DOMAIN train_scheduled_at
          /\ curr_train_counts[r] >= 1
          /\ train_scheduled_at[TrainId(r, curr_train_counts[r] - 1)] = t - 1
          /\ frequencies[Epoch(t - 1)][routes[q].name] > 0
          /\ stations[routes[q].start_station].train = None
          /\ \A id \in DOMAIN trains :
                id.route_idx = q => train_scheduled_at[id] < t - 1

----------------------------------------------------------------------------
(* Learned clauses *)

\* the clauses the run holds: the ones handed in and the ones learned
Clauses == prior_conflicts \cup {new_conflicts[i] : i \in 1..Len(new_conflicts)}

\* the dispatches that stand: the equalities of the solver, and the trains
\* of the network with the ticks they were dispatched at
Standing ==
    Equalities(z3_solver)
    \cup {Eq(id, train_scheduled_at[id]) : id \in DOMAIN trains}

ClausesHold ==
    /\ Clauses \subseteq Asserted(z3_solver)
    /\ \A id \in DOMAIN trains : Eq(id, train_scheduled_at[id]) \in Equalities(z3_solver)
    /\ \A c \in Clauses :
          ~(Eq(c.a, c.ta) \in Standing /\ Eq(c.b, c.tb) \in Standing)

\* C28: the clause learned from a conflict names the two trains of the
\* conflict with the ticks they were dispatched at; in every later state
\* of the run every clause learned so far, and every clause handed in
\* from earlier runs, is asserted in the solver, and no clause has both
\* its trains committed at its two ticks.
C28_ClausesNeverViolated ==
    [][/\ ClausesHold'
       /\ new_conflicts' # new_conflicts =>
             /\ Len(new_conflicts') = Len(new_conflicts) + 1
             /\ SubSeq(new_conflicts', 1, Len(new_conflicts)) = new_conflicts
             /\ \E c \in last_conflict' :
                   /\ new_conflicts'[Len(new_conflicts')] =
                         Conflict(c.other, train_scheduled_at[c.other],
                                  c.curr, train_scheduled_at[c.curr])
                   /\ Eq(c.other, train_scheduled_at[c.other]) \in Standing
                   /\ Eq(c.curr, train_scheduled_at[c.curr]) \in Standing]_vars

\* after a clause was learned, one of its trains stands at the clause's
\* tick again and the other was dispatched at another tick
C28_Witness ==
    /\ pc = "sched"
    /\ \E i \in 1..Len(new_conflicts) :
          LET c == new_conflicts[i] IN
          /\ Eq(c.a, c.ta) \in Equalities(z3_solver)
          /\ \E e \in Equalities(z3_solver) : e.a = c.b /\ e.ta # c.tb

----------------------------------------------------------------------------
(* Termination of schedule_trains *)

\* the clauses a run can learn at all: two trains within the quotas of
\* their routes, and two ticks of the run
ClauseSpace ==
    LET Quota(r) == SumTo(desired_frequencies, routes[r].name,
                          Len(desired_frequencies) + 1)
        ids == {TrainId(r, n) : r \in RouteIds, n \in 0..(TooMany + MaxQuota)}
        ok == {id \in ids : id.count < Quota(id.route_idx)}
    IN {Conflict(a, ta, b, tb) :
           a \in ok, b \in ok, ta \in 0..(iterations - 1), tb \in 0..(iterations - 1)}

\* the clause with the two trains of c in the other order
Mirror(c) == Conflict(c.b, c.tb, c.a, c.ta)

\* a step of the loop of lines 522-758: the call returns, or the tick
\* runs to its end and the next tick follows with the clauses as they
\* were, or a clause is learned that the run did not hold, in either order
\* of its trains
Progress ==
    pc = "sched" =>
        \/ pc' \in {"some", "none"}
        \/ /\ pc' = "sched"
           /\ t' = t + 1
           /\ t' <= iterations
           /\ new_conflicts' = new_conflicts
        \/ /\ pc' = "sched"
           /\ t' <= t
           /\ Len(new_conflicts') = Len(new_conflicts) + 1
           /\ SubSeq(new_conflicts', 1, Len(new_conflicts)) = new_conflicts
           /\ LET c == new_conflicts'[Len(new_conflicts')] IN
                 /\ c \notin Clauses
                 /\ Mirror(c) \notin Clauses
                 /\ c \in ClauseSpace

\* the frequency table has an epoch for every tick of the run
TableCoversRun == iterations <= SCHEDULE_GRANULARITY * Len(desired_frequencies)

----------------------------------------------------------------------------
(* Termination of optimize *)

\* the (epoch, route) pairs of the frequency table
Fragments == (DOMAIN desired_frequencies) \X {routes[r].name : r \in DOMAIN routes}

\* what is left to do: the increments that the kept schedule can still
\* take, and the fragments not blacklisted
Remaining ==
    Cardinality(Fragments \ blacklisted_fragments)
    + SumOver([f \in Fragments |-> SCHEDULE_GRANULARITY - curr_schedule[f[2]][f[1]]],
              Fragments)

\* C30: every iteration of the loop of optimize picks a fragment that is
\* not blacklisted and whose frequency is below SCHEDULE_GRANULARITY, and
\* raises it by one; when the call of schedule_trains has returned, the
\* increment is either kept for good (the kept schedule gains one, the
\* blacklist stays) or taken back with the fragment added to the
\* blacklist, where it was not before; the blacklist only grows, no
\* frequency of a blacklisted fragment changes, no frequency kept goes
\* down or above SCHEDULE_GRANULARITY, and what is left to do shrinks by
\* one with every iteration.
C30_OptimizeProgress ==
    [][caller = "optimize" =>
         /\ blacklisted_fragments \subseteq blacklisted_fragments'
         /\ \A f \in blacklisted_fragments :
               /\ desired_frequencies'[f[1]][f[2]] = desired_frequencies[f[1]][f[2]]
               /\ curr_schedule'[f[2]][f[1]] = curr_schedule[f[2]][f[1]]
         /\ \A f \in Fragments :
               /\ curr_schedule'[f[2]][f[1]] >= curr_schedule[f[2]][f[1]]
               /\ curr_schedule'[f[2]][f[1]] <= SCHEDULE_GRANULARITY
               /\ desired_frequencies'[f[1]][f[2]] <= SCHEDULE_GRANULARITY
               /\ desired_frequencies'[f[1]][f[2]] >= curr_schedule'[f[2]][f[1]]
         /\ Remaining' >= 0
         /\ (pc = "optimize" /\ pc' = "sched") =>
               /\ best_fragment' \in Fragments \ blacklisted_fragments
               /\ desired_frequencies[best_fragment'[1]][best_fragment'[2]] < SCHEDULE_GRANULARITY
               /\ desired_frequencies' = Bump(desired_frequencies, best_fragment', 1)
               /\ UNCHANGED << curr_schedule, blacklisted_fragments >>
         /\ (pc \in {"some", "none"} /\ pc' = "optimize") =>
               /\ Remaining' = Remaining - 1
               /\ \/ /\ curr_schedule' = [curr_schedule EXCEPT ![best_fragment[2]][best_fragment[1]] = @ + 1]
                     /\ UNCHANGED << desired_frequencies, blacklisted_fragments >>
                  \/ /\ best_fragment \notin blacklisted_fragments
                     /\ blacklisted_fragments' = blacklisted_fragments \cup {best_fragment}
                     /\ desired_frequencies' = Bump(desired_frequencies, best_fragment, -1)
                     /\ UNCHANGED curr_schedule
         /\ (pc = "sched") => UNCHANGED << desired_frequencies, curr_schedule, blacklisted_fragments >>
         /\ (pc = "optimize" /\ pc' = "returned") =>
               UNCHANGED << desired_frequencies, curr_schedule, blacklisted_fragments >>]_vars

\* optimize has returned after it kept an increment and blacklisted every
\* fragment of the table
C30_Witness ==
    /\ caller = "optimize"
    /\ pc = "returned"
    /\ accepted # <<>>
    /\ blacklisted_fragments = Fragments
    /\ \E f \in Fragments : curr_schedule[f[2]][f[1]] > 1

----------------------------------------------------------------------------
(* The end of optimize *)

\* C31: optimize returns as soon as no candidate increment has an
\* evaluator cost below the current accepted cost: it calls
\* schedule_trains only for a fragment whose evaluator cost is strictly
\* below the current cost, and when no candidate has such a cost its next
\* step is the return.
C31_StopsWithoutImprovement ==
    [][(caller = "optimize" /\ pc = "optimize") =>
         /\ pc' = "sched" => lowest_cost' < curr_cost
         /\ (\A fragment \in Candidates : ~(EstimatedCost(fragment) < curr_cost))
               => pc' = "returned"]_vars

----------------------------------------------------------------------------
(* Transfers in the search map *)

\* a walk edge of weight 1 leads from the node u to the node v
Transfer(sm, u, v) ==
    \E e \in DOMAIN sm.map.edges :
        /\ sm.map.edges[e].source = u
        /\ sm.map.edges[e].target = v
        /\ sm.map.edges[e].ty = "Walk"
        /\ sm.map.edges[e].weight = 1

\* C32: in the search map built by generate, any two distinct copies u
\* and v of one station are joined by a walk edge of weight 1 from u to v
\* and by one from v to u.
C32_TransfersBothWays ==
    (pc = "planner" /\ answers = <<>>) =>
        LET sm == search_map IN
        \A s \in DOMAIN sm.old_to_new_nodes :
            \A i, j \in DOMAIN sm.old_to_new_nodes[s] :
                i # j => Transfer(sm, sm.old_to_new_nodes[s][i],
                                      sm.old_to_new_nodes[s][j])

----------------------------------------------------------------------------
(* The search map after shortest_paths *)

\* C33: on every return of shortest_paths, the early return of an
\* exhausted first search included, the search map is as generate built
\* it: no edge is disabled, the virtual start node and its edges are gone,
\* the nodes and the edges are the same.
C33_SearchMapRestored ==
    (pc = "planner" /\ caller = "main") =>
        /\ search_map = Generate(subway_map, routes)
        /\ \A e \in DOMAIN search_map.map.edges : ~search_map.map.edges[e].disabled

----------------------------------------------------------------------------
(* Alternatives of shortest_paths *)

\* lines 1097-1112: the search map with the virtual start node and its
\* zero-cost edges to the copies of `start`
WithVirtualStart(sm, start) ==
    LET start_nodes == sm.old_to_new_nodes[start] IN
    [sm EXCEPT
       !.map.nodes = Append(@, SearchNode("", 0)),
       !.map.edges = @ \o [i \in DOMAIN start_nodes |->
           SearchEdge(Len(sm.map.nodes) + 1, start_nodes[i], "Walk", 0)]]

\* the alternative j of the answer a takes none of the edges disabled for
\* the segment i of the best path (the last path of the answer)
Avoids(a, j, i) ==
    LET sm == WithVirtualStart(Generate(subway_map, routes), a.start)
        path == a.paths[Len(a.paths)]
    IN \A e \in DisabledEdges(sm, path, i) :
          \A n \in DOMAIN a.chains[j] : a.chains[j][n] # sm.map.edges[e]

\* C34: every alternative that shortest_paths records avoids the edges
\* disabled for the search that produced it (the edges disabled for one
\* of the segments of the best path), and no alternative is the best path
\* over again.
C34_AlternativesAvoidDisabled ==
    (answers # <<>> /\ answers[1].kind = "ok") =>
        LET a == answers[1] IN
        \A j \in 1..(Len(a.paths) - 1) :
            /\ \E i \in DOMAIN a.paths[Len(a.paths)] : Avoids(a, j, i)
            /\ a.chains[j] # a.chains[Len(a.chains)]

----------------------------------------------------------------------------
(* Journeys that run past the period *)

\* lines 1320-1322: the epoch in which the segment would be boarded
BoardingEpoch(sm, segment, curr_time) ==
    RustDiv(curr_time \div CostUnit - calculate_time_to(sm, segment.start_node) \div UNIT,
            SCHEDULE_GRANULARITY)

RECURSIVE Truncated(_, _, _, _, _, _)
\* the cost of a candidate that is cut off before the first segment whose
\* boarding epoch lies outside the table; a segment within the table that
\* no train serves makes the candidate infeasible
Truncated(sm, F, path, i, curr_time, c) ==
    IF i > Len(path) THEN c
    ELSE
      LET segment == path[i]
          epoch == BoardingEpoch(sm, segment, curr_time)
          total_frequency == TotalFrequency(sm, F, segment, curr_time)
          step == segment.cost * CostUnit + Wait(total_frequency)
                  + WalkTime(sm, segment.edge_to_next)
      IN IF epoch < 0 \/ epoch >= Len(F) THEN c
         ELSE IF total_frequency = 0 THEN F64_INFINITY
         ELSE Truncated(sm, F, path, i + 1, curr_time + step, c + step)

\* the trip i at `time` with its candidates truncated
TruncatedContribution(time, i) ==
    LET trip == trip_data[time][i]
        paths == shortest_paths[<<trip.start, trip.end>>]
        cheapest ==
            SetMin({F64_INFINITY}
                   \cup {Truncated(search_map, desired_frequencies, paths[p], 1,
                                   time * CostUnit, 0) : p \in DOMAIN paths})
    IN IF cheapest < F64_INFINITY THEN cheapest * trip.count ELSE 0

\* C35: in calculate_costs a candidate with a segment whose boarding
\* epoch is negative or not below the number of epochs is truncated: that
\* segment and the later ones are left out, and the candidate competes for
\* the minimum of its trip with the cost of its earlier segments.
C35_TruncatedCompetes ==
    (caller = "costs" /\ pc = "costed") =>
        lowest_cost =
            SumOver([time \in DOMAIN trip_data |->
                       SeqSum([i \in DOMAIN trip_data[time] |->
                                  TruncatedContribution(time, i)])],
                    DOMAIN trip_data)

----------------------------------------------------------------------------
(* Leaving a station *)

\* the train of `station` has a next track whose tail train is nearer
\* than MIN_TRAIN_DISTANCE to the start of the track
TailTooClose(S, station) ==
    /\ S.stations[station].train # None
    /\ LET route == routes[S.trains[S.stations[station].train].route] IN
       /\ station \in DOMAIN route.station_to
       /\ LET q == S.tracks[route.station_to[station]].trains IN
          /\ q # <<>>
          /\ S.trains[q[Len(q)]].pos < MIN_TRAIN_DISTANCE

\* station_to_track, called on the state S with time_left, keeps to the
\* rule of the next track
LeavesByRule(S, station, time_left) ==
    LET after == StationToTrack(S, station, time_left)
        train == S.stations[station].train
    IN
    /\ TailTooClose(S, station) =>
          /\ after.stations = S.stations
          /\ after.tracks = S.tracks
          /\ after.trains[train].curr_section = S.trains[train].curr_section
          /\ DOMAIN after.trains = DOMAIN S.trains
    /\ (train # None /\ train \in DOMAIN after.trains
           /\ after.trains[train].curr_section # S.trains[train].curr_section) =>
          LET e == after.trains[train].curr_section.id
              q == S.tracks[e].trains
          IN /\ after.trains[train].curr_section = Track(e)
             /\ e = routes[S.trains[train].route].station_to[station]
             /\ S.trains[train].pos + time_left >= STATION_DWELL_TIME
             /\ q = <<>> \/ S.trains[q[Len(q)]].pos >= MIN_TRAIN_DISTANCE
             /\ after.tracks[e].trains = Append(q, train)
             /\ after.stations[station].train = None

\* C36: in station_to_track a train that has completed its dwell moves
\* onto its next track only if that track is empty or its tail train is at
\* MIN_TRAIN_DISTANCE or beyond; when the tail train is nearer, the train
\* stays: the occupant of the station, the section of the train and the
\* queue of the next track are as before.  Checked for the call of
\* station_to_track on every state that run reaches, with any time left,
\* and for the trains that a tick of run takes from a station to a track.
C36_LeavesOnlyWithRoom ==
    [][/\ \A station \in DOMAIN stations : \A time_left \in 0..TIME_STEP :
             LeavesByRule(SimState, station, time_left)
       /\ \A id \in DOMAIN trains \cap DOMAIN trains' :
             (trains[id].curr_section.ty = "Station"
                /\ trains'[id].curr_section.ty = "Track") =>
               LET q == tracks'[trains'[id].curr_section.id].trains IN
               /\ q[Len(q)] = id
               /\ Len(q) > 1 =>
                     trains'[q[Len(q) - 1]].pos >= trains'[id].pos + MIN_TRAIN_DISTANCE]_vars

\* the train of a station has completed its dwell and is held there by a
\* tail train too near the start of its next track
C36_Witness ==
    \E station \in DOMAIN stations :
        /\ TailTooClose(SimState, station)
        /\ trains[stations[station].train].pos = STATION_DWELL_TIME

----------------------------------------------------------------------------
(* The debug assertions of the track loops *)

RECURSIVE TrackAsserts(_, _, _, _, _, _)
\* the debug assertions of lines 327-336 (run) and 623-632 (sched =
\* TRUE, where the loop ends at a merge conflict) hold at every entry into
\* the downstream station during the loop over the queue of `track`
TrackAsserts(S, track, i, last_train_pos0, now, sched) ==
    IF i >= Len(S.tracks[track].trains) THEN TRUE
    ELSE
      LET next_station_id == subway_map.edges[track].target
          length == S.tracks[track].length * UNIT
          last_train_pos == EffectiveLeader(S, track, last_train_pos0)
          curr_train_id == S.tracks[track].trains[i + 1]
          pos0 == S.trains[curr_train_id].pos
          travel_distance == TravelDistance(pos0, length, last_train_pos, TIME_STEP)
          pos1 == pos0 + travel_distance
          S1 == [S EXCEPT !.trains[curr_train_id].pos = pos1]
      IN
      IF sched /\ MergeConflict(pos0, last_train_pos, TIME_STEP) THEN TRUE
      ELSE IF pos1 >= length /\ StationVacant(S, next_station_id)
      THEN /\ i = 0
           /\ S.stations[next_station_id].train = None
           /\ TrackAsserts(StationToTrack(
                               EnterStation(S1, track, curr_train_id,
                                            travel_distance, now),
                               next_station_id, TIME_STEP - travel_distance),
                           track, i, last_train_pos, now, sched)
      ELSE TrackAsserts(S1, track, i + 1, pos1, now, sched)

RECURSIVE MovementAsserts(_, _, _, _)
\* the assertions hold throughout the movement of tick `now`, from the
\* index k of the traversal order on
MovementAsserts(S, k, now, sched) ==
    IF k > Len(traversal_order) THEN TRUE
    ELSE
      LET track_station == traversal_order[k] IN
      IF track_station.ty = "Station"
      THEN MovementAsserts(StationToTrack(S, track_station.id, TIME_STEP),
                           k + 1, now, sched)
      ELSE /\ TrackAsserts(S, track_station.id, 0, INFINITY, now, sched)
           /\ IF sched
              THEN LET r == SchedTrackLoop(S, track_station.id, 0, INFINITY, now) IN
                   r.kind = "ok" => MovementAsserts(r.sim, k + 1, now, sched)
              ELSE MovementAsserts(TrackLoop(S, track_station.id, 0, INFINITY, now),
                                   k + 1, now, sched)

\* C37: in run and in schedule_trains a train goes from a track into its
\* destination station only as the head of the queue and only into a
\* vacant station: in the tick that follows any reachable state the debug
\* assertions on the index 0 and on the empty station hold at every entry,
\* and no train is lost from a station to a train that came in on top of
\* it (every train whose section is a station is that station's train).
C37_EntersVacantAsHead ==
    /\ (pc = "run" /\ t < iterations) =>
          MovementAsserts(FreshTick(SimState), 1, t, FALSE)
    /\ (pc = "sched" /\ t < iterations) =>
          MovementAsserts(FreshTick(SimState), 1, t, TRUE)
    /\ \A id \in DOMAIN trains :
          trains[id].curr_section.ty = "Station"
             => stations[trains[id].curr_section.id].train = id

\* a tick is about to run in which the head of a queue can reach the end
\* of its track, the station there is occupied, and a second train
\* follows on the same track
C37_Witness ==
    /\ pc \in {"run", "sched"}
    /\ t < iterations
    /\ \E e \in DOMAIN tracks :
          /\ Len(tracks[e].trains) >= 2
          /\ trains[tracks[e].trains[1]].pos + TIME_STEP >= tracks[e].length * UNIT
          /\ stations[subway_map.edges[e].target].train # None

----------------------------------------------------------------------------
(* Progress of a train in one tick *)

\* the time a section takes: the length of a track, the dwell of a station
SectionTime(section) ==
    IF section.ty = "Track" THEN tracks[section.id].length * UNIT
    ELSE STATION_DWELL_TIME

\* the way of a train so far: the sections it has left, and its position
\* in the section it is in
Odometer(train) ==
    SeqSum([n \in 1..(Len(train.visited) - 1) |-> SectionTime(train.visited[n])])
    + train.pos

\* C38: in a tick of run no train progresses by more than TIME_STEP in
\* all, track distance and dwell taken together across the sections it
\* passes; a train goes on by at most two sections (from a track into the
\* station and on to the next track), a train minted in the tick has not
\* moved, and a train removed in the tick was within TIME_STEP of the end
\* of its dwell at its last station.
C38_AtMostOneStep ==
    [][(pc = "run" /\ pc' = "run" /\ t' = t + 1) =>
         /\ \A id \in DOMAIN trains \cap DOMAIN trains' :
               /\ Odometer(trains'[id]) - Odometer(trains[id]) <= TIME_STEP
               /\ Odometer(trains'[id]) >= Odometer(trains[id])
               /\ Len(trains'[id].visited) <= Len(trains[id].visited) + 2
               /\ SubSeq(trains'[id].visited, 1, Len(trains[id].visited))
                     = trains[id].visited
         /\ \A id \in DOMAIN trains' \ DOMAIN trains :
               /\ Odometer(trains'[id]) = 0
               /\ Len(trains'[id].visited) = 1
         /\ \A id \in DOMAIN trains \ DOMAIN trains' :
               LET section == trains[id].curr_section IN
               (IF section.ty = "Track"
                THEN SectionTime(section) - trains[id].pos + STATION_DWELL_TIME
                ELSE STATION_DWELL_TIME - trains[id].pos) <= TIME_STEP]_vars

\* a train has come from a track through a station onto the next track
\* within one tick, and has used the whole tick
C38_Witness ==
    \E id \in DOMAIN trains :
        LET v == trains[id].visited IN
        /\ Len(v) >= 4
        /\ v[Len(v)].ty = "Track"
        /\ trains[id].pos = 0
        /\ \E s \in DOMAIN train_positions :
              \E p \in train_positions[s].trains :
                 /\ p.id = id
                 /\ p.curr_section = v[Len(v) - 2]

----------------------------------------------------------------------------
(* The simulator between two runs of the optimizer *)

\* C39: when schedule_trains has returned, with Some or with None, the
\* reset that follows leaves the simulator as Simulator::new made it: no
\* trains, every count 0, every station without a train and without
\* arrival times, every track queue empty, and the graph, the routes and
\* the traversal order as they were.
C39_ResetIsFresh ==
    [][(caller = "optimize" /\ pc \in {"some", "none"} /\ pc' = "optimize") =>
         /\ trains' = <<>>
         /\ curr_train_counts' = [r \in DOMAIN routes |-> 0]
         /\ stations' = NewStations(subway_map, routes)
         /\ tracks' = NewTracks(subway_map)
         /\ subway_map' = subway_map
         /\ routes' = routes
         /\ traversal_order' = NewTraversalOrder(subway_map, routes)]_vars

\* schedule_trains has returned Some with trains minted, one of them in a
\* track queue
C39_Witness ==
    /\ caller = "optimize"
    /\ pc = "some"
    /\ trains # <<>>
    /\ \E r \in DOMAIN routes : curr_train_counts[r] > 0
    /\ \E e \in DOMAIN tracks : tracks[e].trains # <<>>

\* schedule_trains has returned None with trains in the simulator
C39_WitnessNone ==
    /\ caller = "optimize"
    /\ pc = "none"
    /\ trains # <<>>

----------------------------------------------------------------------------
(* Clauses handed from one call of schedule_trains to the next *)

\* one-epoch tables with a quota for every route: none, few, or as many
\* as just fit the epoch
CarryTables(rts) ==
    LET names == {rts[r].name : r \in DOMAIN rts}
    IN {<<q>> : q \in [names -> {0, 1, MaxQuota, TooMany - 1}]}

\* networks with a long track, used by one route or shared by two
CarryNetworks ==
    {NetSingle(LongLen), NetMid(1, LongLen)}

\* lines 446-520: a call of schedule_trains on the table F with the clauses
\* `conflicts`, on a simulator that reset has cleared (line 903)
StartSchedule(F, conflicts) ==
    /\ SetSim([reset(SimState) EXCEPT !.removed_log = {}])
    /\ desired_frequencies' = F
    /\ frequencies' = F
    /\ prior_conflicts' = conflicts
    /\ z3_solver' = <<Axioms(F, routes) \cup conflicts>>
    /\ t' = 0
    /\ pc' = "sched"
    /\ train_scheduled_at' = <<>>
    /\ states' = <<>>
    /\ new_conflicts' = <<>>
    /\ last_conflict' = {}
    /\ train_positions' = <<>>
    /\ train_to_route' = <<>>
    /\ UNCHANGED << subway_map, routes, traversal_order, route_order,
                    iterations, frequency, twin >>
    /\ OtherUnchanged

\* schedule_trains is called on the table F2 with no clauses; every call
\* runs for the same number of ticks, the length of the tables or one more
InitCarry ==
    /\ \E net \in CarryNetworks : Construct(net)
    /\ route_order = [i \in DOMAIN routes |-> i]
    /\ frequency = 0
    /\ carry \in [phase : {"alone"}, F1 : CarryTables(routes),
                   F2 : CarryTables(routes)]
    /\ desired_frequencies = carry.F2
    /\ prior_conflicts = {}
    /\ iterations \in {SCHEDULE_GRANULARITY, SCHEDULE_GRANULARITY + 1}
    /\ frequencies = desired_frequencies
    /\ z3_solver = <<Axioms(desired_frequencies, routes)>>
    /\ t = 0
    /\ pc = "sched"
    /\ train_scheduled_at = <<>>
    /\ states = <<>>
    /\ new_conflicts = <<>>
    /\ last_conflict = {}
    /\ NoPlanner
    /\ NoOptimize
    /\ twin = <<>>

\* lines 901-908: a call has returned Some and reset has cleared the
\* simulator. After the call on F2 alone, schedule_trains is called on F1
\* without clauses; after that, on F2 with the clauses the call on F1 has
\* returned.
CarryOn ==
    /\ carry # <<>>
    /\ carry.phase \in {"alone", "learn"}
    /\ pc = "some"
    /\ IF carry.phase = "alone"
       THEN /\ StartSchedule(carry.F1, {})
            /\ carry' = [carry EXCEPT !.phase = "learn"]
       ELSE /\ StartSchedule(carry.F2, Range(new_conflicts))
            /\ carry' = [carry EXCEPT !.phase = "given"]

SpecCarry == InitCarry /\ [][NextSched \/ CarryOn]_vars

\* C40: when schedule_trains on F2 without clauses has returned Some, and
\* a run on F1 has returned Some with the clauses it learned, the run on
\* F2 that is given these clauses does not return None.
C40_ClausesCarryOver ==
    (carry # <<>> /\ carry.phase = "given") => pc # "none"

====
